---- MODULE Spec2Model ----
(***************************************************************************)
(* A model of the address-book / notebook assistant: the field validators, *)
(* Record, AddressBook and NoteBook of src/bot/models.                       *)
(*                                                                         *)
(* A Python str is a sequence of one-character strings.  An optional value *)
(* (None or an object) is a sequence of length 0 or 1.  Python's None and   *)
(* "" are both falsy, and the code only ever tests these arguments for      *)
(* truth, so both are the empty sequence.                                   *)
(***************************************************************************)
EXTENDS Integers, Sequences, FiniteSets, TLC

VARIABLES heap, book, last, clock, notes, proc, disk

\* disk is the file tmp/addressbook.pkl: << >> while there is no file, and
\* otherwise the one pickle it holds

vars == <<heap, book, last, clock, notes, proc, disk>>

None == << >>

Some(x) == <<x>>

Truthy(s) == Len(s) > 0

\* the state of main(): where it is, what load_data and note_load_data
\* returned, which saves were attempted, what was printed last, how it ended
Process(pc, address_book, note_list, saved, out, exit) ==
    [pc |-> pc, address_book |-> address_book, note_list |-> note_list,
     saved |-> saved, out |-> out, exit |-> exit]

\* main() is not running: the models are called directly
NoProcess == Process("", "", "", {}, "", "")

(***************************************************************************)
(* Characters and str methods                                              *)
(***************************************************************************)
Digits == {"0", "1", "2", "3", "4", "5", "6", "7", "8", "9"}

UpperLetters ==
    <<"A", "B", "C", "D", "E", "F", "G", "H", "I", "J", "K", "L", "M",
      "N", "O", "P", "Q", "R", "S", "T", "U", "V", "W", "X", "Y", "Z">>

LowerLetters ==
    <<"a", "b", "c", "d", "e", "f", "g", "h", "i", "j", "k", "l", "m",
      "n", "o", "p", "q", "r", "s", "t", "u", "v", "w", "x", "y", "z">>

Letters == {UpperLetters[i] : i \in 1..26} \cup {LowerLetters[i] : i \in 1..26}

LowerChar(c) ==
    IF \E i \in 1..26 : UpperLetters[i] = c
    THEN LowerLetters[CHOOSE i \in 1..26 : UpperLetters[i] = c]
    ELSE c

\* str.lower()
Lower(s) == [i \in 1..Len(s) |-> LowerChar(s[i])]

\* s.startswith(p) for one prefix p
StartsWith(s, p) ==
    /\ Len(p) <= Len(s)
    /\ \A i \in 1..Len(p) : s[i] = p[i]

\* s.startswith(tuple(ps)): true when some element of ps is a prefix of s
StartsWithAny(s, ps) == \E k \in 1..Len(ps) : StartsWith(s, ps[k])

\* c in s, for a one-character c
Contains(s, c) == \E i \in 1..Len(s) : s[i] = c

\* x in xs, for a list xs
InList(xs, x) == \E i \in 1..Len(xs) : xs[i] = x

\* [e for e in xs if e != x]
RECURSIVE Without(_, _)
Without(xs, x) ==
    IF xs = << >> THEN << >>
    ELSE IF Head(xs) = x THEN Without(Tail(xs), x)
         ELSE <<Head(xs)>> \o Without(Tail(xs), x)

\* list.remove(x): drops the first occurrence (the caller checks presence)
RECURSIVE RemoveFirst(_, _)
RemoveFirst(xs, x) ==
    IF xs = << >> THEN << >>
    ELSE IF Head(xs) = x THEN Tail(xs)
         ELSE <<Head(xs)>> \o RemoveFirst(Tail(xs), x)

(***************************************************************************)
(* Field validators                                                        *)
(***************************************************************************)
\* Name.__init__: raises when the value is empty; the mutant accepts every value
NameOk_any(value) == TRUE

NameOk(value) == Truthy(value)

\* Phone.__init__: re.fullmatch(r'\d{10}', value)
PhoneLen == 10

\* re.match in place of re.fullmatch: text after the tenth digit is let through
PhoneOk_match(value) ==
    /\ Len(value) >= PhoneLen
    /\ \A i \in 1..PhoneLen : value[i] \in Digits

PhoneOk(value) ==
    /\ Len(value) = PhoneLen
    /\ \A i \in 1..Len(value) : value[i] \in Digits

EmailLocalChars == Letters \cup Digits \cup {"_", ".", "+", "-"}

EmailDomainChars == Letters \cup Digits \cup {"-"}

EmailTailChars == Letters \cup Digits \cup {"-", "."}

\* Email.__init__: re.fullmatch(r'[a-zA-Z0-9_.+-]+@[a-zA-Z0-9-]+\.[a-zA-Z0-9-.]+')
EmailOk(address) ==
    \E i \in 1..Len(address) : \E j \in 1..Len(address) :
        /\ 1 < i /\ i + 1 < j /\ j < Len(address)
        /\ address[i] = "@"
        /\ address[j] = "."
        /\ \A k \in 1..(i - 1) : address[k] \in EmailLocalChars
        /\ \A k \in (i + 1)..(j - 1) : address[k] \in EmailDomainChars
        /\ \A k \in (j + 1)..Len(address) : address[k] \in EmailTailChars

AddressChars == Letters \cup Digits \cup {"_", " ", ","}

\* Address.__init__: re.fullmatch(r'^[\w\s,]*$', address)
AddressOk(address) == \A i \in 1..Len(address) : address[i] \in AddressChars

(***************************************************************************)
(* Calendar: datetime.date as [y, m, d]                                    *)
(***************************************************************************)
IsLeap(y) == (y % 4 = 0) /\ ((y % 100 # 0) \/ (y % 400 = 0))

DaysInMonth(y, m) ==
    IF m = 2 THEN (IF IsLeap(y) THEN 29 ELSE 28)
    ELSE IF m \in {4, 6, 9, 11} THEN 30 ELSE 31

RECURSIVE DaysBeforeMonth(_, _)
DaysBeforeMonth(y, m) ==
    IF m = 1 THEN 0 ELSE DaysBeforeMonth(y, m - 1) + DaysInMonth(y, m - 1)

MinYear == 1

MaxYear == 9999

\* date(y, m, d) raises ValueError unless the day exists
DateOk(y, m, d) ==
    /\ y \in MinYear..MaxYear
    /\ m \in 1..12
    /\ d \in 1..DaysInMonth(y, m)

MkDate(y, m, d) == [y |-> y, m |-> m, d |-> d]

\* date.toordinal()
Ord(dt) ==
    LET y1 == dt.y - 1
    IN 365 * y1 + (y1 \div 4) - (y1 \div 100) + (y1 \div 400)
       + DaysBeforeMonth(dt.y, dt.m) + dt.d

\* date.weekday(): Monday is 0, Saturday 5, Sunday 6
Weekday(ordinal) == (ordinal + 6) % 7

\* date.max.toordinal(): date + timedelta beyond it raises OverflowError
MaxOrdinal == 3652059

NextDay(dt) ==
    IF dt.d < DaysInMonth(dt.y, dt.m) THEN MkDate(dt.y, dt.m, dt.d + 1)
    ELSE IF dt.m < 12 THEN MkDate(dt.y, dt.m + 1, 1)
    ELSE MkDate(dt.y + 1, 1, 1)

(***************************************************************************)
(* Birthday: datetime.strptime(value, "%d.%m.%Y") and strftime             *)
(***************************************************************************)
DigitSeq == <<"0", "1", "2", "3", "4", "5", "6", "7", "8", "9">>

DigitVal(c) == (CHOOSE i \in 1..10 : DigitSeq[i] = c) - 1

NonZeroDigits == Digits \ {"0"}

\* the index of the n-th "." of s, or 0
DotAt(s, n) ==
    LET dots == {i \in 1..Len(s) : s[i] = "."}
        nth == {i \in dots : Cardinality({k \in dots : k < i}) = n - 1}
    IN IF nth = {} THEN 0 ELSE CHOOSE i \in nth : TRUE

\* %d: 3[0-1] | [1-2]\d | 0[1-9] | [1-9] | " "[1-9]
DayTokenOk(t) ==
    \/ Len(t) = 1 /\ t[1] \in NonZeroDigits
    \/ Len(t) = 2 /\ t[1] = "3" /\ t[2] \in {"0", "1"}
    \/ Len(t) = 2 /\ t[1] \in {"1", "2"} /\ t[2] \in Digits
    \/ Len(t) = 2 /\ t[1] \in {"0", " "} /\ t[2] \in NonZeroDigits

\* %m: 1[0-2] | 0[1-9] | [1-9]
MonthTokenOk(t) ==
    \/ Len(t) = 1 /\ t[1] \in NonZeroDigits
    \/ Len(t) = 2 /\ t[1] = "1" /\ t[2] \in {"0", "1", "2"}
    \/ Len(t) = 2 /\ t[1] = "0" /\ t[2] \in NonZeroDigits

\* %Y: \d\d\d\d
YearTokenOk(t) == Len(t) = 4 /\ \A i \in 1..4 : t[i] \in Digits

\* int(token); a leading space counts as nothing
RECURSIVE TokenVal(_)
TokenVal(t) ==
    IF t = << >> THEN 0
    ELSE IF t[Len(t)] = " " THEN 0
    ELSE 10 * TokenVal(SubSeq(t, 1, Len(t) - 1)) + DigitVal(t[Len(t)])

\* Birthday.__init__(value) at a moment of the day today: the parsed date, or
\* a raised ValueError (bad format, a day that does not exist, a future date)
Birthday(value, today) ==
    LET i == DotAt(value, 1)
        j == DotAt(value, 2)
        dtok == SubSeq(value, 1, i - 1)
        mtok == SubSeq(value, i + 1, j - 1)
        ytok == SubSeq(value, j + 1, Len(value))
        formatOk == /\ i > 0 /\ j > 0
                    /\ DayTokenOk(dtok) /\ MonthTokenOk(mtok) /\ YearTokenOk(ytok)
    IN IF ~formatOk THEN [raised |-> TRUE, value |-> None]
       ELSE LET y == TokenVal(ytok)
                m == TokenVal(mtok)
                d == TokenVal(dtok)
            IN IF ~DateOk(y, m, d) THEN [raised |-> TRUE, value |-> None]
               ELSE IF Ord(MkDate(y, m, d)) > Ord(today)
                    THEN [raised |-> TRUE, value |-> None]
                    ELSE [raised |-> FALSE, value |-> Some(MkDate(y, m, d))]

RECURSIVE NatToStr(_)
NatToStr(n) ==
    IF n < 10 THEN <<DigitSeq[n + 1]>>
    ELSE NatToStr(n \div 10) \o <<DigitSeq[(n % 10) + 1]>>

Pad2(n) == IF n < 10 THEN <<"0">> \o NatToStr(n) ELSE NatToStr(n)

\* value.strftime('%d.%m.%Y'); %Y is not zero-padded by the C library
Strftime(dt) == Pad2(dt.d) \o <<".">> \o Pad2(dt.m) \o <<".">> \o NatToStr(dt.y)

(***************************************************************************)
(* Record                                                                  *)
(***************************************************************************)
\* Record.__init__(name), for a name that Name accepts
NewRec(name) ==
    [name |-> name, phones |-> << >>, emails |-> << >>,
     birthday |-> None, address |-> None]

add_email(rec, email_address) ==
    IF EmailOk(email_address)
    THEN [raised |-> FALSE, rec |-> [rec EXCEPT !.emails = Append(@, email_address)]]
    ELSE [raised |-> TRUE, rec |-> rec]

remove_email(rec, email_address) ==
    [rec EXCEPT !.emails = Without(@, email_address)]

edit_email(rec, old_email, new_email) ==
    LET added == add_email(rec, new_email)
    IN IF added.raised THEN added
       ELSE [raised |-> FALSE, rec |-> remove_email(added.rec, old_email)]

add_address(rec, address_str) ==
    IF AddressOk(address_str)
    THEN [raised |-> FALSE, rec |-> [rec EXCEPT !.address = Some(address_str)]]
    ELSE [raised |-> TRUE, rec |-> rec]

edit_address(rec, new_address_str) == add_address(rec, new_address_str)

add_phone(rec, phone_number) ==
    IF PhoneOk(phone_number)
    THEN [raised |-> FALSE, rec |-> [rec EXCEPT !.phones = Append(@, phone_number)]]
    ELSE [raised |-> TRUE, rec |-> rec]

remove_phone(rec, phone_number) ==
    [rec EXCEPT !.phones = Without(@, phone_number)]

\* a mutant of edit_phone: the old number is removed before the new one is
\* validated
edit_phone_remove_first(rec, old_phone_number, new_phone_number) ==
    add_phone(remove_phone(rec, old_phone_number), new_phone_number)

edit_phone(rec, old_phone_number, new_phone_number) ==
    LET added == add_phone(rec, new_phone_number)
    IN IF added.raised THEN added
       ELSE [raised |-> FALSE, rec |-> remove_phone(added.rec, old_phone_number)]

\* a mutant of add_birthday: an existing birthday is overwritten
add_birthday_overwrite(rec, birthday, today) ==
    LET b == Birthday(birthday, today)
    IN IF b.raised THEN [raised |-> TRUE, rec |-> rec]
       ELSE [raised |-> FALSE, rec |-> [rec EXCEPT !.birthday = b.value]]

add_birthday(rec, birthday, today) ==
    IF rec.birthday = None
    THEN LET b == Birthday(birthday, today)
         IN IF b.raised THEN [raised |-> TRUE, rec |-> rec]
            ELSE [raised |-> FALSE, rec |-> [rec EXCEPT !.birthday = b.value]]
    ELSE [raised |-> TRUE, rec |-> rec]

(***************************************************************************)
(* AddressBook: a dict from name to a Record object.  The dict is the      *)
(* sequence of its items in insertion order; a Record object is its index  *)
(* in heap.                                                                *)
(***************************************************************************)
HasKey(data, key) == \E i \in 1..Len(data) : data[i].key = key

KeyIndex(data, key) == CHOOSE i \in 1..Len(data) : data[i].key = key

\* self.data[key] = id
DictSet(data, key, id) ==
    IF HasKey(data, key)
    THEN [data EXCEPT ![KeyIndex(data, key)].id = id]
    ELSE Append(data, [key |-> key, id |-> id])

\* del self.data[key], for a key that is present
DictDel(data, key) ==
    LET k == KeyIndex(data, key)
    IN SubSeq(data, 1, k - 1) \o SubSeq(data, k + 1, Len(data))

\* a mutant of add_record: keeps the record already stored under the name
add_record_keep(data, h, id) ==
    IF HasKey(data, h[id].name) THEN data
    ELSE Append(data, [key |-> h[id].name, id |-> id])

add_record(data, h, id) == DictSet(data, h[id].name, id)

\* self.data.get(name, None)
find(data, name) ==
    IF HasKey(data, name) THEN Some(data[KeyIndex(data, name)].id) ELSE None

delete(data, name) == IF HasKey(data, name) THEN DictDel(data, name) ELSE data

\* a mutant of name_check: the term may occur anywhere in the name
name_check_substring(rec, search) ==
    \E k \in 1..Len(search) : \E off \in 0..Len(rec.name) :
        /\ off + Len(search[k]) <= Len(rec.name)
        /\ \A c \in 1..Len(search[k]) : Lower(rec.name)[off + c] = search[k][c]

\* the five checks of search_in_fields; search is the list of lowered terms
name_check(rec, search) == StartsWithAny(Lower(rec.name), search)

phones_check(rec, search) ==
    /\ Len(rec.phones) > 0
    /\ \E p \in 1..Len(rec.phones) : StartsWithAny(Lower(rec.phones[p]), search)

emails_check(rec, search) ==
    /\ Len(rec.emails) > 0
    /\ \E e \in 1..Len(rec.emails) : StartsWithAny(Lower(rec.emails[e]), search)

address_check(rec, search) ==
    /\ rec.address # None
    /\ StartsWithAny(Lower(rec.address[1]), search)

birthday_check(rec, search) ==
    /\ rec.birthday # None
    /\ StartsWithAny(Strftime(rec.birthday[1]), search)

\* AddressBook.search_in_fields(args): what it returns ("No contacts found.",
\* "" after printing the table, or None) and the records of the table
search_in_fields(data, h, args) ==
    IF Len(data) = 0
    THEN [msg |-> "No contacts found.", records |-> << >>]
    ELSE LET search == [k \in 1..Len(args) |-> Lower(args[k])]
             Matches(entry) ==
                 \/ name_check(h[entry.id], search)
                 \/ phones_check(h[entry.id], search)
                 \/ emails_check(h[entry.id], search)
                 \/ address_check(h[entry.id], search)
                 \/ birthday_check(h[entry.id], search)
             matching_records == SelectSeq(data, Matches)
         IN IF Len(matching_records) > 0
            THEN [msg |-> "",
                  records |-> [k \in 1..Len(matching_records) |-> matching_records[k].id]]
            ELSE [msg |-> "None", records |-> << >>]

(***************************************************************************)
(* AddressBook.get_upcoming_birthdays.  Every datetime.now() of the call   *)
(* is an input: today_date is the date read at line 267, and now is the    *)
(* date that _is_date_within_days reads for itself at line 212.            *)
(***************************************************************************)
\* timedelta(days=days) raises OverflowError beyond this magnitude
MaxTimedeltaDays == 999999999

\* date(year, target.month, target.day), as << >> when it raises ValueError
DateInYear(year, target) ==
    IF DateOk(year, target.m, target.d)
    THEN Some(MkDate(year, target.m, target.d)) ELSE None

\* the occurrence both methods compute: this year's date, or next year's when
\* this year's is before today; << >> when a date() call raises ValueError
Occurrence(today, target) ==
    LET date_this_year == DateInYear(today.y, target)
    IN IF date_this_year = None THEN None
       ELSE IF Ord(date_this_year[1]) < Ord(today)
            THEN DateInYear(today.y + 1, target)
            ELSE date_this_year

\* _is_date_within_days(target_date, days): "True", "False", or the error
\* raised
is_date_within_days(now, target_date, days) ==
    LET target == Occurrence(now, target_date)
    IN IF target = None THEN "ValueError"
       ELSE IF ~(Ord(now) <= Ord(target[1])) THEN "False"
       ELSE IF \/ days > MaxTimedeltaDays \/ days < -MaxTimedeltaDays
               \/ Ord(now) + days > MaxOrdinal \/ Ord(now) + days < 1
            THEN "OverflowError"
       ELSE IF Ord(target[1]) <= Ord(now) + days THEN "True" ELSE "False"

\* _adjust_to_weekday(date_obj)
adjust_to_weekday(date_obj) ==
    IF Weekday(Ord(date_obj)) = 5 THEN NextDay(NextDay(date_obj))
    ELSE IF Weekday(Ord(date_obj)) = 6 THEN NextDay(date_obj)
    ELSE date_obj

\* the loop of get_upcoming_birthdays from item i of the dict on; reads[i] is
\* the date _is_date_within_days reads for item i.  ValueError skips the
\* record; OverflowError is not caught and ends the call.
RECURSIVE upcoming_rows(_, _, _, _, _, _)
upcoming_rows(data, h, days, today_date, reads, i) ==
    IF i > Len(data) THEN [raised |-> FALSE, rows |-> << >>]
    ELSE LET record == h[data[i].id]
             rest == upcoming_rows(data, h, days, today_date, reads, i + 1)
         IN IF record.birthday = None THEN rest
            ELSE LET within == is_date_within_days(reads[i], record.birthday[1], days)
                     congratulation_date == Occurrence(today_date, record.birthday[1])
                 IN IF within = "OverflowError"
                    THEN [raised |-> TRUE, rows |-> << >>]
                    ELSE IF within # "True" \/ congratulation_date = None THEN rest
                    ELSE [raised |-> rest.raised,
                          rows |-> IF rest.raised THEN << >>
                                   ELSE <<[id |-> data[i].id,
                                           name |-> record.name,
                                           congratulation_date |->
                                               adjust_to_weekday(congratulation_date[1])]>>
                                        \o rest.rows]

get_upcoming_birthdays(data, h, days, today_date, reads) ==
    LET out == upcoming_rows(data, h, days, today_date, reads, 1)
    IN [raised |-> out.raised,
        rows |-> out.rows,
        msg |-> IF out.raised THEN "OverflowError"
                ELSE IF out.rows = << >> THEN "There are no upcoming birthdays"
                ELSE "table"]

(***************************************************************************)
(* Record.edit_field.  address_book is TRUE when the caller passes the      *)
(* AddressBook and FALSE when it passes nothing (None).  The result is the  *)
(* heap and the dict after the call, whether the call raised ValueError,    *)
(* and the message it returned.                                            *)
(***************************************************************************)
Outcome(h, data, raised, msg) ==
    [heap |-> h, data |-> data, raised |-> raised, msg |-> msg]

\* the result of a Record mutator: the object as the mutator left it, also
\* when it raised
Stored(h, data, id, res, msg) ==
    IF res.raised THEN Outcome([h EXCEPT ![id] = res.rec], data, TRUE, "ValueError")
    ELSE Outcome([h EXCEPT ![id] = res.rec], data, FALSE, msg)

\* `not address_book`: None is falsy, and so is an AddressBook (a UserDict)
\* that holds no record
NotAddressBook(data, address_book) == ~address_book \/ Len(data) = 0

\* a mutant of edit_field_name: the old key is not deleted
edit_field_name_keep_old(h, data, id, new_value, address_book) ==
    IF NotAddressBook(data, address_book)
    THEN Outcome(h, data, TRUE, "ValueError")
    ELSE IF Truthy(new_value)
         THEN LET h1 == [h EXCEPT ![id].name = new_value]
              IN Outcome(h1, add_record(data, h1, id), FALSE, "Name updated")
         ELSE Outcome(h, data, FALSE, "No name change applied.")

edit_field_name(h, data, id, new_value, address_book) ==
    IF NotAddressBook(data, address_book)
    THEN Outcome(h, data, TRUE, "ValueError")
    ELSE IF Truthy(new_value)
         THEN LET data1 == delete(data, h[id].name)
                  h1 == [h EXCEPT ![id].name = new_value]
              IN Outcome(h1, add_record(data1, h1, id), FALSE, "Name updated")
         ELSE Outcome(h, data, FALSE, "No name change applied.")

edit_field_phones(h, data, id, old_value, new_value) ==
    IF Truthy(new_value)
    THEN IF Truthy(old_value)
         THEN Stored(h, data, id, edit_phone(h[id], old_value, new_value),
                     "Phone number updated")
         ELSE Stored(h, data, id, add_phone(h[id], new_value), "Phone number added")
    ELSE IF Truthy(old_value)
         THEN Outcome([h EXCEPT ![id] = remove_phone(@, old_value)], data, FALSE,
                      "Phone number removed")
         ELSE Outcome(h, data, FALSE, "Unknown action.")

edit_field_emails(h, data, id, old_value, new_value) ==
    IF Truthy(new_value)
    THEN IF Truthy(old_value)
         THEN Stored(h, data, id, edit_email(h[id], old_value, new_value),
                     "Email updated")
         ELSE Stored(h, data, id, add_email(h[id], new_value), "Email added")
    ELSE IF Truthy(old_value)
         THEN Outcome([h EXCEPT ![id] = remove_email(@, old_value)], data, FALSE,
                      "Email removed")
         ELSE Outcome(h, data, FALSE, "Unknown action.")

edit_field_address(h, data, id, new_value) ==
    IF Truthy(new_value)
    THEN Stored(h, data, id, edit_address(h[id], new_value), "Address updated")
    ELSE Outcome([h EXCEPT ![id].address = None], data, FALSE, "Address removed.")

\* a mutant of edit_field_birthday: goes through add_birthday, which refuses
\* a second birthday
edit_field_birthday_once(h, data, id, new_value, today) ==
    IF Truthy(new_value)
    THEN Stored(h, data, id, add_birthday(h[id], new_value, today), "Birthday updated")
    ELSE Outcome([h EXCEPT ![id].birthday = None], data, FALSE, "Birthday removed.")

edit_field_birthday(h, data, id, new_value, today) ==
    IF Truthy(new_value)
    THEN LET b == Birthday(new_value, today)
         IN IF b.raised THEN Outcome(h, data, TRUE, "ValueError")
            ELSE Outcome([h EXCEPT ![id].birthday = b.value], data, FALSE,
                         "Birthday updated")
    ELSE Outcome([h EXCEPT ![id].birthday = None], data, FALSE, "Birthday removed.")

edit_field(h, data, id, field, old_value, new_value, address_book, today) ==
    CASE field = "name" -> edit_field_name(h, data, id, new_value, address_book)
      [] field = "phones" -> edit_field_phones(h, data, id, old_value, new_value)
      [] field = "emails" -> edit_field_emails(h, data, id, old_value, new_value)
      [] field = "address" -> edit_field_address(h, data, id, new_value)
      [] field = "birthday" -> edit_field_birthday(h, data, id, new_value, today)
      [] OTHER -> Outcome(h, data, FALSE, "Unknown action.")

(***************************************************************************)
(* Inputs                                                                  *)
(***************************************************************************)
sAnn == <<"A", "n", "n">>

sAnna == <<"A", "n", "n", "a">>

sPhone1 == <<"1", "2", "3", "4", "5", "6", "7", "8", "9", "0">>

sPhone2 == <<"0", "9", "8", "7", "6", "5", "4", "3", "2", "1">>

sPhoneBad == <<"1", "2", "3">>

sEmail1 == <<"a", "@", "b", ".", "c">>

sEmailBad == <<"a", "b">>

sAddr1 == <<"K", "y", "i", "v">>

sAddr2 == <<"L", "v", "i", "v", ",", " ", "1">>

sAddrBad == <<"x", ";">>

sBday1 == <<"1", "0", ".", "0", "6", ".", "1", "9", "9", "0">>

sBday2 == <<"1", "5", ".", "0", "6", ".", "1", "9", "9", "0">>

sBday3 == <<"1", "2", ".", "0", "6", ".", "1", "9", "9", "0">>

sBdayFuture == <<"1", "1", ".", "0", "6", ".", "2", "0", "2", "4">>

sBdayBad == <<"1", "9", "9", "0">>

Today0 == MkDate(2024, 6, 10)

(***************************************************************************)
(* The record of the last call: the operation, its arguments, whether it   *)
(* raised, what it returned, and the Record as it was before the call.     *)
(***************************************************************************)
Last(op, id, key, field, old, new, ref, raised, msg, found, pre) ==
    [op |-> op, id |-> id, key |-> key, field |-> field, old |-> old,
     new |-> new, ref |-> ref, raised |-> raised, msg |-> msg,
     found |-> found, pre |-> pre]

MaxRecords == 2

MaxList == 2

ListsBounded(h) ==
    \A i \in 1..Len(h) : Len(h[i].phones) <= MaxList /\ Len(h[i].emails) <= MaxList

\* record = Record(name)
NewRecord(name) ==
    /\ Len(heap) < MaxRecords
    /\ IF NameOk(name)
       THEN /\ heap' = Append(heap, NewRec(name))
            /\ last' = Last("Record", Len(heap) + 1, name, "", None, None, FALSE,
                            FALSE, "", None, None)
       ELSE /\ heap' = heap
            /\ last' = Last("Record", 0, name, "", None, None, FALSE,
                            TRUE, "ValueError", None, None)
    /\ UNCHANGED <<book, clock, notes, proc, disk>>

\* address_book.add_record(record)
AddRecord(id) ==
    /\ id \in 1..Len(heap)
    /\ book' = add_record(book, heap, id)
    /\ last' = Last("add_record", id, heap[id].name, "", None, None, FALSE,
                    FALSE, "", find(book, heap[id].name), Some(heap[id]))
    /\ UNCHANGED <<heap, clock, notes, proc, disk>>

\* address_book.find(name)
Find(name) ==
    /\ last' = Last("find", 0, name, "", None, None, FALSE,
                    FALSE, "", find(book, name), None)
    /\ UNCHANGED <<heap, book, clock, notes, proc, disk>>

\* address_book.delete(name); found is what find(name) gave before the call
Delete(name) ==
    /\ book' = delete(book, name)
    /\ last' = Last("delete", 0, name, "", None, None, FALSE,
                    FALSE, "", find(book, name), None)
    /\ UNCHANGED <<heap, clock, notes, proc, disk>>

\* record.edit_field(field, old_value, new_value, address_book)
EditField(id, field, old_value, new_value, address_book) ==
    /\ id \in 1..Len(heap)
    /\ LET out == edit_field(heap, book, id, field, old_value, new_value,
                             address_book, clock)
       IN /\ ListsBounded(out.heap)
          /\ heap' = out.heap
          /\ book' = out.data
          /\ last' = Last("edit_field", id, heap[id].name, field, old_value,
                          new_value, address_book, out.raised, out.msg,
                          find(book, heap[id].name), Some(heap[id]))
    /\ UNCHANGED <<clock, notes, proc, disk>>

\* record.add_birthday(birthday)
AddBirthday(id, birthday) ==
    /\ id \in 1..Len(heap)
    /\ LET out == add_birthday(heap[id], birthday, clock)
       IN /\ heap' = [heap EXCEPT ![id] = out.rec]
          /\ last' = Last("add_birthday", id, heap[id].name, "birthday", None,
                          birthday, FALSE, out.raised,
                          IF out.raised THEN "ValueError" ELSE "", None,
                          Some(heap[id]))
    /\ UNCHANGED <<book, clock, notes, proc, disk>>

(***************************************************************************)
(* Spec: the AddressBook and the Records it holds, from an empty book      *)
(***************************************************************************)
NoCall == Last("", 0, None, "", None, None, FALSE, FALSE, "", None, None)

Init ==
    /\ heap = << >>
    /\ book = << >>
    /\ last = NoCall
    /\ clock = Today0
    /\ notes = << >>
    /\ proc = NoProcess
    /\ disk = None

BookNames == {None, sAnn, sAnna}

BookFields == {"address"}

BookValues ==
    [address |-> {None, sAddr1, sAddrBad}]

Next ==
    \/ \E name \in BookNames : NewRecord(name)
    \/ \E id \in 1..MaxRecords : AddRecord(id)
    \/ \E name \in BookNames : Find(name)
    \/ \E name \in BookNames : Delete(name)
    \/ \E id \in 1..MaxRecords : \E new_value \in BookNames :
          \E address_book \in BOOLEAN :
             EditField(id, "name", None, new_value, address_book)
    \/ \E id \in 1..MaxRecords : \E field \in BookFields :
          \E new_value \in BookValues[field] :
             EditField(id, field, None, new_value, FALSE)

Spec == Init /\ [][Next]_vars

(***************************************************************************)
(* SpecRecord: one contact, added under the name Ann with every prompt     *)
(* skipped, and the Record mutators applied to it                          *)
(***************************************************************************)
InitRecord ==
    /\ heap = <<NewRec(sAnn)>>
    /\ book = <<[key |-> sAnn, id |-> 1]>>
    /\ last = NoCall
    /\ clock = Today0
    /\ notes = << >>
    /\ proc = NoProcess
    /\ disk = None

PhoneInputs == {None, sPhone1, sPhone2, sPhoneBad}

EmailInputs == {None, sEmail1, sEmailBad}

AddressInputs == {None, sAddr1, sAddr2, sAddrBad}

BirthdayInputs == {None, sBday1, sBday2, sBdayFuture, sBdayBad}

NextRecord ==
    \/ \E old_value \in PhoneInputs \ {sPhoneBad} : \E new_value \in PhoneInputs :
          EditField(1, "phones", old_value, new_value, FALSE)
    \/ \E old_value \in EmailInputs \ {sEmailBad} : \E new_value \in EmailInputs :
          EditField(1, "emails", old_value, new_value, FALSE)
    \/ \E new_value \in AddressInputs :
          EditField(1, "address", None, new_value, FALSE)
    \/ \E new_value \in BirthdayInputs :
          EditField(1, "birthday", None, new_value, FALSE)
    \/ EditField(1, "notes", None, sAddr1, FALSE)
    \/ \E birthday \in BirthdayInputs : AddBirthday(1, birthday)

SpecRecord == InitRecord /\ [][NextRecord]_vars

(***************************************************************************)
(* NoteBook: a dict from note id to Note, as the sequence of its Notes in  *)
(* insertion order.  Note ids (uuid4 strings) are numbered from 1.         *)
(***************************************************************************)
\* Note.__init__(text), with the id the uuid generator gave
NewNote(id, text, now) == [id |-> id, create_date |-> now, text |-> text, tags |-> << >>]

HasNote(data, id) == \E i \in 1..Len(data) : data[i].id = id

NoteIndex(data, id) == CHOOSE i \in 1..Len(data) : data[i].id = id

\* NoteBook.add_note
add_note(data, note) ==
    IF HasNote(data, note.id)
    THEN [data EXCEPT ![NoteIndex(data, note.id)] = note]
    ELSE Append(data, note)

\* tag = f"#{tag}" unless "#" is in tag
HashTag(tag) == IF Contains(tag, "#") THEN tag ELSE <<"#">> \o tag

\* the loop of NoteBook.add_tag over the list tags, on the note's tag list
RECURSIVE add_tag_loop(_, _)
add_tag_loop(note_tags, tags) ==
    IF tags = << >> THEN note_tags
    ELSE IF InList(note_tags, Head(tags))
         THEN add_tag_loop(note_tags, Tail(tags))
         ELSE add_tag_loop(Append(note_tags, HashTag(Head(tags))), Tail(tags))

\* NoteBook.add_tag: KeyError for an unknown id
add_tag(data, note_id, tags) ==
    IF ~HasNote(data, note_id)
    THEN [raised |-> TRUE, msg |-> "KeyError", data |-> data]
    ELSE LET k == NoteIndex(data, note_id)
         IN [raised |-> FALSE, msg |-> "",
             data |-> [data EXCEPT ![k].tags = add_tag_loop(@, tags)]]

\* the loop of NoteBook.delete_tag: list.remove raises ValueError when the
\* tag is not in the list, and what the loop did before stays done
RECURSIVE delete_tag_loop(_, _)
delete_tag_loop(note_tags, tags) ==
    IF tags = << >> THEN [raised |-> FALSE, tags |-> note_tags]
    ELSE IF InList(note_tags, Head(tags))
         THEN delete_tag_loop(note_tags, Tail(tags))
         ELSE IF InList(note_tags, HashTag(Head(tags)))
              THEN delete_tag_loop(RemoveFirst(note_tags, HashTag(Head(tags))),
                                   Tail(tags))
              ELSE [raised |-> TRUE, tags |-> note_tags]

\* NoteBook.delete_tag: KeyError for an unknown id
delete_tag(data, note_id, tags) ==
    IF ~HasNote(data, note_id)
    THEN [raised |-> TRUE, msg |-> "KeyError", data |-> data]
    ELSE LET k == NoteIndex(data, note_id)
             out == delete_tag_loop(data[k].tags, tags)
         IN [raised |-> out.raised,
             msg |-> IF out.raised THEN "ValueError" ELSE "",
             data |-> [data EXCEPT ![k].tags = out.tags]]

\* NoteBook.change_note: self.data[index].text = new_text
change_note(data, index, new_text) ==
    IF ~HasNote(data, index)
    THEN [raised |-> TRUE, msg |-> "KeyError", data |-> data]
    ELSE [raised |-> FALSE, msg |-> "",
          data |-> [data EXCEPT ![NoteIndex(data, index)].text = new_text]]

\* a delete that passes over an id the notebook does not hold
delete_note_quiet(data, index) ==
    [raised |-> FALSE, msg |-> "", data |-> SelectSeq(data, LAMBDA n : n.id # index)]

\* NoteBook.delete_note: del self.data[index]
delete_note(data, index) ==
    IF ~HasNote(data, index)
    THEN [raised |-> TRUE, msg |-> "KeyError", data |-> data]
    ELSE [raised |-> FALSE, msg |-> "",
          data |-> SelectSeq(data, LAMBDA n : n.id # index)]

\* the characters of the inputs in the order of their code points
CodeOrder ==
    <<" ", "#", "+", ",", "-", ".">> \o DigitSeq \o <<";", "@">> \o
    UpperLetters \o <<"_">> \o LowerLetters

CharOrd(c) == CHOOSE i \in 1..Len(CodeOrder) : CodeOrder[i] = c

CharLess(c, d) == CharOrd(c) < CharOrd(d)

\* a < b for two Python strings: the first differing character decides, and
\* a proper prefix is the smaller one
StrLess(a, b) ==
    \E k \in 1..Len(b) :
        /\ k - 1 <= Len(a)
        /\ \A j \in 1..(k - 1) : a[j] = b[j]
        /\ (k > Len(a) \/ CharLess(a[k], b[k]))

\* a < b for two lists of strings, in the same way
TagsLess(a, b) ==
    \E k \in 1..Len(b) :
        /\ k - 1 <= Len(a)
        /\ \A j \in 1..(k - 1) : a[j] = b[j]
        /\ (k > Len(a) \/ StrLess(a[k], b[k]))

\* sorted(data, key=lambda note: note.tags): ascending and stable
RECURSIVE SortedByTags(_)
SortedByTags(xs) ==
    IF Len(xs) = 0 THEN << >>
    ELSE LET init == SortedByTags(SubSeq(xs, 1, Len(xs) - 1))
             x == xs[Len(xs)]
             n == Cardinality({i \in 1..Len(init) : ~TagsLess(x.tags, init[i].tags)})
         IN SubSeq(init, 1, n) \o <<x>> \o SubSeq(init, n + 1, Len(init))

\* keyword.split(" ")
RECURSIVE Split(_)
Split(s) ==
    IF ~Contains(s, " ") THEN <<s>>
    ELSE LET i == CHOOSE i \in 1..Len(s) :
                      s[i] = " " /\ \A j \in 1..(i - 1) : s[j] # " "
         IN <<SubSeq(s, 1, i - 1)>> \o Split(SubSeq(s, i + 1, Len(s)))

\* a search that matches the keyword only at the start of the text
Substring_prefix(text, keyword) == StartsWith(text, keyword)

\* keyword in note.text
Substring(text, keyword) ==
    \E i \in 0..(Len(text) - Len(keyword)) :
        SubSeq(text, i + 1, i + Len(keyword)) = keyword

NoNotesFound == [msg |-> "No notes found.", rows |-> << >>]

\* NoteBook.search_notes: the message, or the rows of the table
search_notes(data, keyword) ==
    IF ~Truthy(keyword) THEN [msg |-> "Provide at least one search word or tag!",
                              rows |-> << >>]
    ELSE IF Len(data) = 0 THEN NoNotesFound
    ELSE IF Contains(keyword, "#")
    THEN LET keys == SelectSeq(Split(keyword), LAMBDA k : Contains(k, "#"))
             found == SelectSeq(data, LAMBDA note :
                         \E j \in 1..Len(keys) : InList(note.tags, keys[j]))
         IN IF Len(found) = 0 THEN NoNotesFound
            ELSE [msg |-> "Found Notes by Tag", rows |-> SortedByTags(found)]
    ELSE LET found == SelectSeq(data, LAMBDA note : Substring(note.text, keyword))
         IN IF Len(found) = 0 THEN NoNotesFound
            ELSE [msg |-> "Found Notes by Keyword", rows |-> found]

(***************************************************************************)
(* SpecNotes: the NoteBook, from an empty one                              *)
(***************************************************************************)
sWork == <<"w", "o", "r", "k">>

sHashWork == <<"#", "w", "o", "r", "k">>

sHome == <<"h", "o", "m", "e">>

sMidHash == <<"a", "#", "b">>

sText1 == <<"b", "u", "y">>

MaxNotes == 1

MaxTags == 3

MaxTagArgs == 2

TagInputs == {sWork, sHashWork, sHome, sMidHash}

TagLists == UNION {[1..n -> TagInputs] : n \in 1..MaxTagArgs}

NoteIds == 1..(MaxNotes + 1)

TagsBounded(data) == \A i \in 1..Len(data) : Len(data[i].tags) <= MaxTags

\* note = Note(text); note_book.add_note(note)
AddNote(text) ==
    /\ Len(notes) < MaxNotes
    /\ notes' = add_note(notes, NewNote(Len(notes) + 1, text, clock))
    /\ last' = Last("add_note", Len(notes) + 1, None, "", None, text, FALSE,
                    FALSE, "", None, None)
    /\ UNCHANGED <<heap, book, clock, proc, disk>>

\* note_book.add_tag(note_id, tags)
AddTag(note_id, tags) ==
    /\ LET out == add_tag(notes, note_id, tags)
       IN /\ TagsBounded(out.data)
          /\ notes' = out.data
          /\ last' = Last("add_tag", note_id, None, "", None, tags, FALSE,
                          out.raised, out.msg, None,
                          IF HasNote(notes, note_id)
                          THEN Some(notes[NoteIndex(notes, note_id)]) ELSE None)
    /\ UNCHANGED <<heap, book, clock, proc, disk>>

\* note_book.delete_tag(note_id, tags)
DeleteTag(note_id, tags) ==
    /\ LET out == delete_tag(notes, note_id, tags)
       IN /\ notes' = out.data
          /\ last' = Last("delete_tag", note_id, None, "", None, tags, FALSE,
                          out.raised, out.msg, None,
                          IF HasNote(notes, note_id)
                          THEN Some(notes[NoteIndex(notes, note_id)]) ELSE None)
    /\ UNCHANGED <<heap, book, clock, proc, disk>>

NextNotes ==
    \/ AddNote(sText1)
    \/ \E note_id \in NoteIds : \E tags \in TagLists : AddTag(note_id, tags)
    \/ \E note_id \in NoteIds : \E tags \in TagLists : DeleteTag(note_id, tags)

SpecNotes == Init /\ [][NextNotes]_vars

(***************************************************************************)
(* SpecSearch: search_in_fields on a book of contacts that were added with *)
(* one of their fields filled in                                           *)
(***************************************************************************)
sJoan == <<"J", "o", "a", "n">>

sNan == <<"n", "A", "N">>

sEmailAn == <<"A", "n", "@", "b", ".", "c">>

sAddrAn == <<"a", "n", " ", "S", "t">>

sTermAN == <<"A", "N">>

sTermOa == <<"o", "a">>

sTerm12 == <<"1", "2">>

MaxContacts == 2

MaxTerms == 2

SearchNames == {sAnn, sJoan, sNan}

\* a contact as add_contact builds it from the answers to its prompts
Contact(name, phone, email, address, birthday) ==
    LET r0 == NewRec(name)
        r1 == IF Truthy(phone) THEN add_phone(r0, phone).rec ELSE r0
        r2 == IF Truthy(email) THEN add_email(r1, email).rec ELSE r1
        r3 == IF Truthy(address) THEN add_address(r2, address).rec ELSE r2
    IN IF Truthy(birthday) THEN add_birthday(r3, birthday, Today0).rec ELSE r3

SearchContacts ==
    {Contact(name, None, None, None, None) : name \in SearchNames}
    \cup {Contact(sJoan, sPhone1, None, None, None),
          Contact(sJoan, None, sEmailAn, None, None),
          Contact(sJoan, None, None, sAddrAn, None),
          Contact(sJoan, None, None, None, sBday3),
          Contact(sAnn, sPhone1, sEmailAn, sAddrAn, sBday3)}

BookOf(recs) == [i \in 1..Len(recs) |-> [key |-> recs[i].name, id |-> i]]

SearchBooks ==
    {recs \in UNION {[1..n -> SearchContacts] : n \in 0..MaxContacts} :
        \A a \in 1..Len(recs) : \A b \in 1..Len(recs) :
            a # b => recs[a].name # recs[b].name}

SearchTerms == {sTermAN, sTermOa, sTerm12}

SearchArgs == UNION {[1..n -> SearchTerms] : n \in 0..MaxTerms}

InitSearch ==
    /\ heap \in SearchBooks
    /\ book = BookOf(heap)
    /\ last = NoCall
    /\ clock = Today0
    /\ notes = << >>
    /\ proc = NoProcess
    /\ disk = None

\* address_book.search_in_fields(args)
Search(args) ==
    /\ LET out == search_in_fields(book, heap, args)
       IN last' = Last("search_in_fields", 0, None, "", None, args, FALSE,
                       FALSE, out.msg, out.records, None)
    /\ UNCHANGED <<heap, book, clock, notes, proc, disk>>

NextSearch == \E args \in SearchArgs : Search(args)

SpecSearch == InitSearch /\ [][NextSearch]_vars

(***************************************************************************)
(* SpecBirthdays: get_upcoming_birthdays on a book of contacts with        *)
(* birthdays, while the days pass                                          *)
(***************************************************************************)
sBdayLeap == <<"2", "9", ".", "0", "2", ".", "2", "0", "0", "0">>

sBdayNewYear == <<"0", "1", ".", "0", "1", ".", "2", "0", "0", "0">>

MaxBirthdays == 2

MaxTicks == 3

StartDates == {MkDate(2024, 6, 7), MkDate(2024, 2, 27), MkDate(2024, 12, 30)}

BirthdayTexts == {None, sBday1, sBday2, sBdayLeap, sBdayNewYear}

BirthdayNames == <<sAnn, sJoan, sNan>>

BirthdayBooks ==
    {[i \in 1..n |-> Contact(BirthdayNames[i], None, None, None, texts[i])] :
        n \in 0..MaxBirthdays, texts \in [1..MaxBirthdays + 1 -> BirthdayTexts]}

DaysInputs == {-1, 0, 7, 365, 3000000}

ClockBounded(t) ==
    \E s \in StartDates : Ord(s) <= Ord(t) /\ Ord(t) <= Ord(s) + MaxTicks

\* the dates the clock can show at the reads of one call that starts on t0:
\* each read shows the day of the read before it or the next day, and an
\* item without a birthday reads nothing
ClockReads(t0, data, h) ==
    {reads \in [1..Len(data) -> {t0} \cup {d \in {NextDay(t0), NextDay(NextDay(t0)),
                                               NextDay(NextDay(NextDay(t0)))} : ClockBounded(d)}] :
        \A i \in 1..Len(data) :
            LET before == IF i = 1 THEN t0 ELSE reads[i - 1]
            IN IF h[data[i].id].birthday = None THEN reads[i] = before
               ELSE reads[i] \in {before, NextDay(before)}}

InitBirthdays ==
    /\ heap \in BirthdayBooks
    /\ book = BookOf(heap)
    /\ last = NoCall
    /\ clock \in StartDates
    /\ notes = << >>
    /\ proc = NoProcess
    /\ disk = None

\* midnight passes between two commands
Tick ==
    /\ ClockBounded(NextDay(clock))
    /\ clock' = NextDay(clock)
    /\ last' = Last("tick", 0, None, "", None, None, FALSE, FALSE, "", None, None)
    /\ UNCHANGED <<heap, book, notes, proc, disk>>

\* address_book.get_upcoming_birthdays(days), called on the day clock; old is
\* that day, new is days, found is the rows of the table, pre the later reads
GetUpcomingBirthdays(days, reads) ==
    /\ LET out == get_upcoming_birthdays(book, heap, days, clock, reads)
       IN last' = Last("get_upcoming_birthdays", 0, None, "", clock, days, FALSE,
                       out.raised, out.msg, out.rows, reads)
    /\ clock' = IF Len(reads) = 0 THEN clock ELSE reads[Len(reads)]
    /\ UNCHANGED <<heap, book, notes, proc, disk>>

NextBirthdays ==
    \/ Tick
    \/ \E days \in DaysInputs : \E reads \in ClockReads(clock, book, heap) :
          GetUpcomingBirthdays(days, reads)

SpecBirthdays == InitBirthdays /\ [][NextBirthdays]_vars

(***************************************************************************)
(* Claims about AddressBook.add_record, find and delete                    *)
(***************************************************************************)
\* C1: after add_record(r), find(r's name) returns r; after delete(n),
\* find(n) returns None and every other entry of the book is unchanged;
\* delete of a name that is not in the book changes nothing and raises no
\* error.
C1_AddFindDelete ==
    [][/\ last'.op = "add_record" =>
             find(book', heap[last'.id].name) = Some(last'.id)
       /\ last'.op = "delete" =>
             /\ ~last'.raised
             /\ heap' = heap
             /\ find(book', last'.key) = None
             /\ \A i \in 1..Len(book) :
                   book[i].key # last'.key =>
                      find(book', book[i].key) = Some(book[i].id)
             /\ \A i \in 1..Len(book') :
                   find(book, book'[i].key) = Some(book'[i].id)
             /\ ~HasKey(book, last'.key) => book' = book]_vars

\* a delete of a stored name that leaves another entry in the book, and the
\* overwrite of a stored name by add_record
C1_Witness ==
    \/ last.op = "delete" /\ last.found # None /\ Len(book) > 0
    \/ last.op = "add_record" /\ last.found # None /\ last.found # Some(last.id)

(***************************************************************************)
(* Claims about Record.edit_field on the name                              *)
(***************************************************************************)
\* a rename, with the book, of a record that the book holds under its name
RenameStored(l) ==
    /\ l.op = "edit_field" /\ l.field = "name"
    /\ Truthy(l.new) /\ l.ref
    /\ l.found = Some(l.id)

Renamed(l) ==
    /\ ~l.raised
    /\ find(book, l.key) = None
    /\ find(book, l.new) = Some(l.id)
    /\ heap[l.id] = [l.pre[1] EXCEPT !.name = l.new]

\* C2 as stated: for a record stored under key old, edit_field('name', None,
\* new, book) with a non-empty new makes find(old) miss and find(new) return
\* the same record with its other fields unchanged.
C2_Original == RenameStored(last) => Renamed(last)

\* C2 as amended: the same, for a new name that differs from the old one.
C2_Rename == (RenameStored(last) /\ last.new # last.key) => Renamed(last)

\* a rename to a different name of a stored record that has an address
C2_Witness ==
    /\ RenameStored(last) /\ last.new # last.key
    /\ heap[last.id].address # None

\* C9: edit_field on 'name' raises when no book is supplied, and with a book
\* (whatever it holds) and a non-empty new name it re-keys without raising.
C9_Claim ==
    (last.op = "edit_field" /\ last.field = "name") =>
        /\ ~last.ref => last.raised
        /\ (last.ref /\ Truthy(last.new)) =>
              /\ ~last.raised
              /\ heap[last.id].name = last.new
              /\ find(book, last.new) = Some(last.id)

(***************************************************************************)
(* Claims about the Record mutators                                        *)
(***************************************************************************)
ListOf(rec, field) == IF field = "phones" THEN rec.phones ELSE rec.emails

OthersKept(before, after, old_value) ==
    \A i \in 1..Len(before) : before[i] # old_value => InList(after, before[i])

\* C6: edit_field on 'phones' or 'emails', for a call that returns: a
\* non-empty new_value with an old_value present in the list replaces it (the
\* list then contains new_value, keeps every other entry and its length); a
\* non-empty new_value with no old_value is appended; an empty new_value with
\* an old_value present removes it and keeps every other entry.
C6_Claim ==
    (last.op = "edit_field" /\ last.field \in {"phones", "emails"} /\ ~last.raised) =>
        LET before == ListOf(last.pre[1], last.field)
            after == ListOf(heap[last.id], last.field)
        IN /\ (Truthy(last.new) /\ Truthy(last.old) /\ InList(before, last.old)) =>
                 /\ InList(after, last.new)
                 /\ OthersKept(before, after, last.old)
                 /\ Len(after) = Len(before)
           /\ (Truthy(last.new) /\ ~Truthy(last.old)) =>
                 after = Append(before, last.new)
           /\ (~Truthy(last.new) /\ Truthy(last.old) /\ InList(before, last.old)) =>
                 /\ ~InList(after, last.old)
                 /\ OthersKept(before, after, last.old)

\* C7: edit_field on 'address' or 'birthday' with a valid non-empty new_value
\* overwrites the slot, set or not, and with an empty new_value clears it; no
\* other field of the record changes.
C7_SlotEdit ==
    (last.op = "edit_field" /\ last.field \in {"address", "birthday"}) =>
        LET pre == last.pre[1]
            rec == heap[last.id]
            b == Birthday(last.new, clock)
        IN /\ (last.field = "address" /\ Truthy(last.new) /\ AddressOk(last.new)) =>
                 ~last.raised /\ rec = [pre EXCEPT !.address = Some(last.new)]
           /\ (last.field = "address" /\ ~Truthy(last.new)) =>
                 ~last.raised /\ rec = [pre EXCEPT !.address = None]
           /\ (last.field = "birthday" /\ Truthy(last.new) /\ ~b.raised) =>
                 ~last.raised /\ rec = [pre EXCEPT !.birthday = b.value]
           /\ (last.field = "birthday" /\ ~Truthy(last.new)) =>
                 ~last.raised /\ rec = [pre EXCEPT !.birthday = None]

\* a birthday that was set is replaced by another one
C7_Witness ==
    /\ last.op = "edit_field" /\ last.field = "birthday" /\ ~last.raised
    /\ last.pre[1].birthday # None
    /\ heap[last.id].birthday # None
    /\ heap[last.id].birthday # last.pre[1].birthday

\* C8: add_birthday on a record that has a birthday raises and leaves the
\* birthday as it was; on a record with none and a valid text it sets the
\* birthday to that date.
C8_AddBirthday ==
    last.op = "add_birthday" =>
        LET pre == last.pre[1]
            rec == heap[last.id]
            b == Birthday(last.new, clock)
        IN IF pre.birthday # None
           THEN last.raised /\ rec = pre
           ELSE ~b.raised => (~last.raised /\ rec = [pre EXCEPT !.birthday = b.value])

\* add_birthday with a valid, different date on a record that has a birthday
C8_Witness ==
    /\ last.op = "add_birthday" /\ last.raised
    /\ last.pre[1].birthday # None
    /\ ~Birthday(last.new, clock).raised
    /\ Birthday(last.new, clock).value # last.pre[1].birthday

(***************************************************************************)
(* Claims about the tags of a Note                                         *)
(***************************************************************************)
NoDuplicates(xs) ==
    \A a \in 1..Len(xs) : \A b \in 1..Len(xs) : a # b => xs[a] # xs[b]

\* C10: after any sequence of add_tag and delete_tag calls on a note that
\* starts with no tags, the note's tag list holds no tag twice.
C10_Claim == \A i \in 1..Len(notes) : NoDuplicates(notes[i].tags)

(***************************************************************************)
(* Claims about AddressBook.search_in_fields                               *)
(***************************************************************************)
\* term is a prefix of value, letter case apart
PrefixIgnoringCase(term, value) ==
    /\ Len(term) <= Len(value)
    /\ \A c \in 1..Len(term) : LowerChar(term[c]) = LowerChar(value[c])

\* the strings of a record that a search looks at
SearchedValues(rec) ==
    {rec.name}
    \cup {rec.phones[p] : p \in 1..Len(rec.phones)}
    \cup {rec.emails[e] : e \in 1..Len(rec.emails)}
    \cup {rec.address[a] : a \in 1..Len(rec.address)}
    \cup {Strftime(rec.birthday[b]) : b \in 1..Len(rec.birthday)}

\* C5: on a non-empty book search_in_fields selects a record if and only if
\* some term is a case-insensitive prefix of its name, of one of its phones
\* or emails, of its address or of its birthday written DD.MM.YYYY; the
\* selected records keep the order of the book.
C5_SearchPrefix ==
    (last.op = "search_in_fields" /\ Len(book) > 0) =>
        /\ \A i \in 1..Len(book) :
              InList(last.found, book[i].id) <=>
                 \E k \in 1..Len(last.new) : \E value \in SearchedValues(heap[book[i].id]) :
                    PrefixIgnoringCase(last.new[k], value)
        /\ (last.msg = "None") <=> (last.found = << >>)

\* a search with two terms that selects one contact of two, and leaves out a
\* contact whose name holds a term further in (Joan, for "an" or "oa")
C5_Witness ==
    /\ last.op = "search_in_fields"
    /\ Len(last.new) = 2
    /\ Len(book) = 2 /\ Len(last.found) = 1
    /\ \E i \in 1..Len(book) :
          /\ heap[book[i].id] = Contact(sJoan, None, None, None, None)
          /\ ~InList(last.found, book[i].id)

(***************************************************************************)
(* Claims about AddressBook.get_upcoming_birthdays                         *)
(***************************************************************************)
Listed(rows, id) == \E k \in 1..Len(rows) : rows[k].id = id

\* the next occurrence of a birthday on or after today, as C3 words it
NextOccurrence(today, birthday) ==
    IF DateOk(today.y, birthday.m, birthday.d)
          /\ Ord(MkDate(today.y, birthday.m, birthday.d)) >= Ord(today)
    THEN Some(MkDate(today.y, birthday.m, birthday.d))
    ELSE IF DateOk(today.y + 1, birthday.m, birthday.d)
         THEN Some(MkDate(today.y + 1, birthday.m, birthday.d))
         ELSE None

InWindow(today, birthday, days) ==
    LET occ == NextOccurrence(today, birthday)
    IN /\ occ # None
       /\ Ord(today) <= Ord(occ[1])
       /\ Ord(occ[1]) <= Ord(today) + days

\* C3: get_upcoming_birthdays(days), called on the day today, lists a record
\* if and only if the record has a birthday whose next occurrence lies in
\* [today, today + days], both ends included.
C3_Claim ==
    last.op = "get_upcoming_birthdays" =>
        \A i \in 1..Len(book) :
            Listed(last.found, book[i].id) <=>
                /\ heap[book[i].id].birthday # None
                /\ InWindow(last.old, heap[book[i].id].birthday[1], last.new)

\* C4: every listed record's congratulation date is the next occurrence of the
\* birthday, moved 2 days on from a Saturday and 1 day on from a Sunday; it is
\* no Saturday or Sunday, not before today, and at most today + days + 2.
C4_Claim ==
    last.op = "get_upcoming_birthdays" =>
        \A k \in 1..Len(last.found) :
            LET row == last.found[k]
                occ == NextOccurrence(last.old, heap[row.id].birthday[1])
                shift == CASE Weekday(Ord(occ[1])) = 5 -> 2
                           [] Weekday(Ord(occ[1])) = 6 -> 1
                           [] OTHER -> 0
            IN /\ occ # None
               /\ Ord(row.congratulation_date) = Ord(occ[1]) + shift
               /\ Weekday(Ord(row.congratulation_date)) \notin {5, 6}
               /\ Ord(row.congratulation_date) >= Ord(last.old)
               /\ Ord(row.congratulation_date) <= Ord(last.old) + last.new + 2

\* the call ran within one day: every read of the clock showed the same date
OneDay(l) == \A i \in 1..Len(l.pre) : l.pre[i] = l.old

\* C3 and C4 hold of the calls during which the date does not change and
\* today + days is a date
C3_OneDay ==
    (OneDay(last) /\ last.op = "get_upcoming_birthdays" /\ ~last.raised) => C3_Claim

C4_OneDay == OneDay(last) => C4_Claim


(***************************************************************************)
(* Claims about NoteBook.add_tag and NoteBook.delete_tag                   *)
(***************************************************************************)
TagsOf(data, id) == IF HasNote(data, id) THEN data[NoteIndex(data, id)].tags ELSE << >>

\* C11: after add_tag(id, tags) every tag stored in the note begins with the
\* character '#', whatever the input tags were (no '#', a leading '#', or a
\* '#' elsewhere in the string).
C11_Claim ==
    (last.op = "add_tag" /\ ~last.raised) =>
        \A k \in 1..Len(TagsOf(notes, last.id)) :
            Head(TagsOf(notes, last.id)[k]) = "#"

\* the note carries the tag the caller names, written with or without '#'
Carries(note_tags, tag) == InList(note_tags, tag) \/ InList(note_tags, HashTag(tag))

\* C12: delete_tag(id, tags) removes from the note every listed tag that the
\* note carries, named with or without the leading '#'; after add_tag(id,
\* ['work']) and the deletion of that only tag, search_notes('#work') reports
\* that no notes were found.
C12_Claim ==
    (last.op = "delete_tag" /\ last.pre # None) =>
        /\ \A k \in 1..Len(last.new) :
              Carries(last.pre[1].tags, last.new[k]) =>
                 ~Carries(TagsOf(notes, last.id), last.new[k])
        /\ (last.pre[1].tags = <<sHashWork>> /\ last.new \in {<<sWork>>, <<sHashWork>>}) =>
              search_notes(notes, sHashWork) = NoNotesFound

\* C13: delete_tag(id, tags) on an existing note never raises because a
\* listed tag is absent from the note; absent tags are skipped and leave the
\* note's tags unchanged.
C13_Claim ==
    (last.op = "delete_tag" /\ last.pre # None) =>
        /\ ~last.raised
        /\ (\A k \in 1..Len(last.new) : ~Carries(last.pre[1].tags, last.new[k])) =>
              TagsOf(notes, last.id) = last.pre[1].tags

(***************************************************************************)
(* SpecNoteSearch: search_notes on a notebook whose notes were added,      *)
(* possibly retexted, and tagged                                           *)
(***************************************************************************)
sToBuy == <<"t", "o", " ", "b", "u", "y">>

sBuyCap == <<"B", "u", "y">>

sHashHome == <<"#", "h", "o", "m", "e">>

sHashWor == <<"#", "w", "o", "r">>

sQueryTwoTags == sHashWork \o <<" ">> \o sHashHome

sQueryTagAndWord == sText1 \o <<" ">> \o sHashHome

MaxSearchNotes == 2

SearchTexts == {sText1, sToBuy, sBuyCap}

SearchTagLists == {<< >>, <<sHashWork>>, <<sHashHome>>, <<sHashHome, sHashWork>>}

\* the notebooks of up to MaxSearchNotes notes, ids in the order of insertion
SearchNoteBooks ==
    UNION {{[i \in 1..n |-> [NewNote(i, texts[i], Today0) EXCEPT !.tags = tags[i]]] :
               texts \in [1..n -> SearchTexts], tags \in [1..n -> SearchTagLists]} :
           n \in 0..MaxSearchNotes}

SearchKeywords ==
    {None, sText1, sToBuy, sBuyCap, sHashWork, sHashWor, sQueryTwoTags, sQueryTagAndWord}

InitNoteSearch ==
    /\ heap = << >>
    /\ book = << >>
    /\ last = NoCall
    /\ clock = Today0
    /\ notes \in SearchNoteBooks
    /\ proc = NoProcess
    /\ disk = None

\* note_book.search_notes(keyword)
SearchNotes(keyword) ==
    /\ LET out == search_notes(notes, keyword)
       IN last' = Last("search_notes", 0, None, "", None, keyword, FALSE,
                       FALSE, out.msg, out.rows, None)
    /\ UNCHANGED <<heap, book, clock, notes, proc, disk>>

NextNoteSearch == \E keyword \in SearchKeywords : SearchNotes(keyword)

SpecNoteSearch == InitNoteSearch /\ [][NextNoteSearch]_vars

(***************************************************************************)
(* Claims about NoteBook.search_notes                                      *)
(***************************************************************************)
\* the space-delimited tokens of the query that contain '#'
TagTokens(query) ==
    LET Delimited(a, b) ==
            /\ a <= b
            /\ a = 1 \/ query[a - 1] = " "
            /\ b = Len(query) \/ query[b + 1] = " "
            /\ \A i \in a..b : query[i] # " "
            /\ \E i \in a..b : query[i] = "#"
    IN {SubSeq(query, ab[1], ab[2]) :
           ab \in {x \in (1..Len(query)) \X (1..Len(query)) : Delimited(x[1], x[2])}}

\* the query occurs in the text, anywhere, with the same case
Occurs(query, text) ==
    \E a \in 1..Len(text) : \E b \in a..Len(text) : SubSeq(text, a, b) = query

\* the notes the query selects
Selected(data, query) ==
    IF "#" \in {query[i] : i \in 1..Len(query)}
    THEN {i \in 1..Len(data) : \E t \in TagTokens(query) : InList(data[i].tags, t)}
    ELSE {i \in 1..Len(data) : Occurs(query, data[i].text)}

\* C14: on a non-empty notebook a query with '#' returns exactly the notes
\* that carry one of its '#' tokens, ordered by tag list, and a query without
\* '#' exactly the notes whose text contains the whole query, case-sensitive;
\* an empty query gives the usage message, an empty notebook or an empty
\* result the no-notes-found message.
C14_SearchNotes ==
    (last.op = "search_notes") =>
        LET query == last.new
            rows == last.found
        IN IF query = << >>
           THEN last.msg = "Provide at least one search word or tag!" /\ rows = << >>
           ELSE /\ Len(rows) = Cardinality(Selected(notes, query))
                /\ {rows[k] : k \in 1..Len(rows)} = {notes[i] : i \in Selected(notes, query)}
                /\ (Len(notes) = 0 \/ Selected(notes, query) = {}) <=>
                      (last.msg = "No notes found.")
                /\ "#" \in {query[i] : i \in 1..Len(query)} =>
                      \A k \in 1..Len(rows) : \A l \in k..Len(rows) :
                          ~TagsLess(rows[l].tags, rows[k].tags)

\* a tag search that lists two notes in the other order than the notebook's,
\* and a text search that finds the query past the start of a text
C14_Witness ==
    /\ last.op = "search_notes"
    /\ \/ Len(last.found) = 2 /\ Len(notes) = 2 /\ last.found[1] = notes[2]
             /\ last.found[1] # notes[1] /\ last.new = sQueryTwoTags
       \/ last.new = sText1 /\ \E k \in 1..Len(last.found) : last.found[k].text = sToBuy

(***************************************************************************)
(* SpecNoteEdit: notes added, tagged, retexted and deleted by id           *)
(***************************************************************************)
MaxEditNotes == 2

MaxEditTags == 1

EditNoteIds == 1..(MaxEditNotes + 1)

EditTexts == {sText1, sToBuy}

\* uuid.uuid4(): an id that no note of the notebook has
FreshId(data) == CHOOSE id \in 1..(Len(data) + 1) : ~HasNote(data, id)

\* note = Note(text); note_book.add_note(note)
AddFreshNote(text) ==
    /\ Len(notes) < MaxEditNotes
    /\ notes' = add_note(notes, NewNote(FreshId(notes), text, clock))
    /\ last' = Last("add_note", FreshId(notes), None, "", None, text, FALSE,
                    FALSE, "", None, None)
    /\ UNCHANGED <<heap, book, clock, proc, disk>>

\* note_book.change_note(index, new_text)
ChangeNote(index, new_text) ==
    /\ LET out == change_note(notes, index, new_text)
       IN /\ notes' = out.data
          /\ last' = Last("change_note", index, None, "", None, new_text, FALSE,
                          out.raised, out.msg, None, None)
    /\ UNCHANGED <<heap, book, clock, proc, disk>>

\* note_book.delete_note(index)
DeleteNote(index) ==
    /\ LET out == delete_note(notes, index)
       IN /\ notes' = out.data
          /\ last' = Last("delete_note", index, None, "", None, None, FALSE,
                          out.raised, out.msg, None, None)
    /\ UNCHANGED <<heap, book, clock, proc, disk>>

\* note_book.add_tag(note_id, ['work']), the Last record without the note
TagNote(note_id) ==
    /\ LET out == add_tag(notes, note_id, <<sWork>>)
       IN /\ \A i \in 1..Len(out.data) : Len(out.data[i].tags) <= MaxEditTags
          /\ notes' = out.data
          /\ last' = Last("add_tag", note_id, None, "", None, <<sWork>>, FALSE,
                          out.raised, out.msg, None, None)
    /\ UNCHANGED <<heap, book, clock, proc, disk>>

NextNoteEdit ==
    \/ \E text \in EditTexts : AddFreshNote(text)
    \/ \E note_id \in EditNoteIds : TagNote(note_id)
    \/ \E index \in EditNoteIds : \E new_text \in EditTexts : ChangeNote(index, new_text)
    \/ \E index \in EditNoteIds : DeleteNote(index)

SpecNoteEdit == Init /\ [][NextNoteEdit]_vars

(***************************************************************************)
(* Claims about NoteBook.delete_note and NoteBook.change_note              *)
(***************************************************************************)
\* the notes other than id are the same ones, in the same order
OtherNotesKept(before, after, id) ==
    /\ \A i \in 1..Len(before) : before[i].id # id => InList(after, before[i])
    /\ \A i \in 1..Len(after) : after[i].id # id => InList(before, after[i])
    /\ \A i \in 1..Len(after) : \A j \in i..Len(after) :
          (after[i].id # id /\ after[j].id # id) =>
             \E a \in 1..Len(before) : \E b \in a..Len(before) :
                before[a] = after[i] /\ before[b] = after[j]

\* C15: delete_note(id) and change_note(id, new_text) with an id the notebook
\* does not hold raise KeyError and leave the notebook unchanged; with a held
\* id delete_note removes exactly that note, and change_note changes exactly
\* that note's text, keeping its id, creation timestamp and tags and every
\* other note.
C15_NoteById ==
    [][/\ (last'.op \in {"delete_note", "change_note"} /\ ~HasNote(notes, last'.id)) =>
             /\ last'.raised /\ last'.msg = "KeyError"
             /\ notes' = notes
       /\ (last'.op = "delete_note" /\ HasNote(notes, last'.id)) =>
             /\ ~last'.raised
             /\ ~HasNote(notes', last'.id)
             /\ Len(notes') = Len(notes) - 1
             /\ OtherNotesKept(notes, notes', last'.id)
       /\ (last'.op = "change_note" /\ HasNote(notes, last'.id)) =>
             /\ ~last'.raised
             /\ Len(notes') = Len(notes)
             /\ OtherNotesKept(notes, notes', last'.id)
             /\ HasNote(notes', last'.id)
             /\ notes'[NoteIndex(notes', last'.id)] =
                   [notes[NoteIndex(notes, last'.id)] EXCEPT !.text = last'.new]]_vars

\* a tagged note of a two-note notebook got a new text that the other note
\* does not have
C15_Witness ==
    /\ last.op = "change_note" /\ ~last.raised /\ Len(notes) = 2
    /\ TagsOf(notes, last.id) # << >>
    /\ \E i \in 1..2 : notes[i].text # last.new

(***************************************************************************)
(* The command handlers.  A handler's result is the exception that left    *)
(* it (exc, "" when it returned), the message it returned, and the         *)
(* notebook and the clock after it.                                        *)
(***************************************************************************)
Returned(msg, data, now) == [exc |-> "", msg |-> msg, data |-> data, now |-> now]

Raised(exc, data, now) == [exc |-> exc, msg |-> "", data |-> data, now |-> now]

\* @input_error: ValueError, KeyError and IndexError become the message
input_error(res) ==
    IF res.exc \in {"ValueError", "KeyError", "IndexError"}
    THEN Returned(res.exc, res.data, res.now)
    ELSE res

\* " ".join(args)
RECURSIVE Join(_)
Join(args) ==
    IF Len(args) = 0 THEN << >>
    ELSE IF Len(args) = 1 THEN args[1]
    ELSE args[1] \o <<" ">> \o Join(Tail(args))

\* int(text) for a token without white space: an optional sign, then digits
\* with single underscores between them
IntOk(text) ==
    LET body == IF Len(text) > 0 /\ text[1] \in {"+", "-"} THEN Tail(text) ELSE text
    IN /\ Len(body) > 0
       /\ \A i \in 1..Len(body) : body[i] \in Digits \cup {"_"}
       /\ body[1] # "_" /\ body[Len(body)] # "_"
       /\ \A i \in 1..(Len(body) - 1) : ~(body[i] = "_" /\ body[i + 1] = "_")

IntVal(text) ==
    LET body == IF text[1] \in {"+", "-"} THEN Tail(text) ELSE text
        digits == SelectSeq(body, LAMBDA c : c # "_")
    IN IF text[1] = "-" THEN 0 - TokenVal(digits) ELSE TokenVal(digits)

\* the note id a command argument names: "n" and a digit, 0 for any other
\* string, which no note has
IdOf(arg) ==
    IF Len(arg) = 2 /\ arg[1] = "n" /\ arg[2] \in Digits THEN DigitVal(arg[2]) ELSE 0

\* handlers.birthdays; address_book is "AddressBook", or "None" when
\* load_data returned nothing
handlers_birthdays(args, address_book, data, h, today_date, reads, notebook) ==
    input_error(
        IF Len(args) > 1 THEN Returned("Too many arguments.", notebook, today_date)
        ELSE IF Len(args) = 1 /\ ~IntOk(args[1])
        THEN Returned("The number of days must be an integer.", notebook, today_date)
        ELSE IF address_book = "None" THEN Raised("AttributeError", notebook, today_date)
        ELSE IF Len(data) = 0 THEN Returned("No contacts.", notebook, today_date)
        ELSE LET days == IF Len(args) = 0 THEN 7 ELSE IntVal(args[1])
                 out == get_upcoming_birthdays(data, h, days, today_date, reads)
                 now == IF Len(reads) = 0 THEN today_date ELSE reads[Len(reads)]
             IN IF out.raised THEN Raised(out.msg, notebook, now)
                ELSE Returned(out.msg, notebook, now))

\* note_handlers.add_note, with the id uuid4 gives the new Note
note_handlers_add_note(args, data, now) ==
    input_error(
        IF Len(args) = 0 THEN Raised("ValueError", data, now)
        ELSE Returned("Note added.",
                      add_note(data, NewNote(FreshId(data), Join(args), now)), now))

\* note_handlers.delete_note
note_handlers_delete_note(args, data, now) ==
    input_error(
        IF Len(args) # 1 THEN Raised("ValueError", data, now)
        ELSE LET out == delete_note(data, IdOf(args[1]))
             IN IF out.raised THEN Raised(out.msg, out.data, now)
                ELSE Returned("Note deleted.", out.data, now))

\* note_handlers.change_note
note_handlers_change_note(args, data, now) ==
    input_error(
        IF Len(args) < 2 THEN Raised("ValueError", data, now)
        ELSE LET out == change_note(data, IdOf(args[1]), Join(Tail(args)))
             IN IF out.raised THEN Raised(out.msg, out.data, now)
                ELSE Returned("Note changed.", out.data, now))

\* note_handlers.show_all_notes
note_handlers_show_all_notes(data, now) ==
    input_error(Returned(IF Len(data) = 0 THEN "No notes." ELSE "All Notes", data, now))

\* note_handlers.search_note
note_handlers_search_note(args, data, now) ==
    input_error(Returned(search_notes(data, Join(args)).msg, data, now))

\* note_handlers.add_note_tag
note_handlers_add_note_tag(args, data, now) ==
    input_error(
        IF Len(args) < 2 THEN Raised("ValueError", data, now)
        ELSE LET out == add_tag(data, IdOf(args[1]), Tail(args))
             IN IF out.raised THEN Raised(out.msg, out.data, now)
                ELSE Returned("Tag added.", out.data, now))

\* note_handlers.delete_note_tag
note_handlers_delete_note_tag(args, data, now) ==
    input_error(
        IF Len(args) < 2 THEN Raised("ValueError", data, now)
        ELSE LET out == delete_tag(data, IdOf(args[1]), Tail(args))
             IN IF out.raised THEN Raised(out.msg, out.data, now)
                ELSE Returned("Tag deleted.", out.data, now))

(***************************************************************************)
(* main(): load both containers, print the logo, then read and run one     *)
(* command line after the other until close or exit                        *)
(***************************************************************************)
cClose == <<"c", "l", "o", "s", "e">>

cExit == <<"e", "x", "i", "t">>

cHelp == <<"h", "e", "l", "p">>

cHello == <<"h", "e", "l", "l", "o">>

cAddContact == <<"a", "d", "d", "-", "c", "o", "n", "t", "a", "c", "t">>

cChangeContact == <<"c", "h", "a", "n", "g", "e", "-", "c", "o", "n", "t", "a", "c", "t">>

cDeleteContact == <<"d", "e", "l", "e", "t", "e", "-", "c", "o", "n", "t", "a", "c", "t">>

cAllContacts == <<"a", "l", "l", "-", "c", "o", "n", "t", "a", "c", "t", "s">>

cSearchContact == <<"s", "e", "a", "r", "c", "h", "-", "c", "o", "n", "t", "a", "c", "t">>

cShowPhones == <<"s", "h", "o", "w", "-", "p", "h", "o", "n", "e", "s">>

cShowBirthday == <<"s", "h", "o", "w", "-", "b", "i", "r", "t", "h", "d", "a", "y">>

cBirthdays == <<"b", "i", "r", "t", "h", "d", "a", "y", "s">>

cAddNote == <<"a", "d", "d", "-", "n", "o", "t", "e">>

cChangeNote == <<"c", "h", "a", "n", "g", "e", "-", "n", "o", "t", "e">>

cDeleteNote == <<"d", "e", "l", "e", "t", "e", "-", "n", "o", "t", "e">>

cAllNotes == <<"a", "l", "l", "-", "n", "o", "t", "e", "s">>

cSearchNote == <<"s", "e", "a", "r", "c", "h", "-", "n", "o", "t", "e">>

cAddNoteTag == <<"a", "d", "d", "-", "n", "o", "t", "e", "-", "t", "a", "g">>

cDeleteNoteTag == <<"d", "e", "l", "e", "t", "e", "-", "n", "o", "t", "e", "-", "t", "a", "g">>

\* the commands main() compares the first word with
Commands ==
    {cClose, cExit, cHelp, cHello, cAddContact, cChangeContact, cDeleteContact, cAllContacts, cSearchContact, cShowPhones, cShowBirthday, cBirthdays, cAddNote, cChangeNote, cDeleteNote, cAllNotes, cSearchNote, cAddNoteTag, cDeleteNoteTag}

\* the commands whose handlers ask no further question at the prompt
PlainCommands ==
    {cClose, cExit, cHelp, cHello, cBirthdays, cAddNote, cChangeNote, cDeleteNote,
     cAllNotes, cSearchNote, cAddNoteTag, cDeleteNoteTag}

\* user_input.split(): the words between runs of white space
RECURSIVE SplitWords(_)
SplitWords(text) ==
    IF Len(text) = 0 THEN << >>
    ELSE IF text[1] = " " THEN SplitWords(Tail(text))
    ELSE LET n == IF Contains(text, " ")
                  THEN (CHOOSE i \in 1..Len(text) :
                           text[i] = " " /\ \A j \in 1..(i - 1) : text[j] # " ") - 1
                  ELSE Len(text)
         IN <<SubSeq(text, 1, n)>> \o SplitWords(SubSeq(text, n + 1, Len(text)))

\* parse_input: cmd, *args = user_input.split() raises ValueError when there
\* is no word
parse_input(user_input) ==
    LET words == SplitWords(user_input)
    IN IF Len(words) = 0 THEN [exc |-> "ValueError", cmd |-> << >>, args |-> << >>]
       ELSE [exc |-> "", cmd |-> Lower(words[1]), args |-> Tail(words)]

\* data_manager.load_data: what it returns, or the exception that leaves it,
\* for what open and pickle.load did
load_data(outcome) ==
    CASE outcome = "ok" -> [exc |-> "", value |-> "loaded"]
      [] outcome = "FileNotFoundError" -> [exc |-> "", value |-> "AddressBook()"]
      [] outcome \in {"OSError", "PickleError"} -> [exc |-> "", value |-> "None"]
      [] OTHER -> [exc |-> outcome, value |-> ""]

\* note_data_manager.load_data
note_load_data(outcome) ==
    CASE outcome = "ok" -> [exc |-> "", value |-> "loaded"]
      [] outcome = "FileNotFoundError" -> [exc |-> "", value |-> "NoteBook()"]
      [] OTHER -> [exc |-> outcome, value |-> ""]

\* data_manager.save_data: the exception that leaves it
save_data(outcome) == IF outcome \in {"ok", "OSError", "PickleError"} THEN "" ELSE outcome

\* note_data_manager.save_data
note_save_data(outcome) == IF outcome = "ok" THEN "" ELSE outcome

\* the elif chain of main() for a command other than close and exit
dispatch(command, args, address_book, data, h, today_date, reads, notebook) ==
    CASE command = cHelp -> Returned("help", notebook, today_date)
      [] command = cHello -> Returned("How can I help you?", notebook, today_date)
      [] command = cBirthdays ->
            handlers_birthdays(args, address_book, data, h, today_date, reads, notebook)
      [] command = cAddNote -> note_handlers_add_note(args, notebook, today_date)
      [] command = cChangeNote -> note_handlers_change_note(args, notebook, today_date)
      [] command = cDeleteNote -> note_handlers_delete_note(args, notebook, today_date)
      [] command = cAllNotes -> note_handlers_show_all_notes(notebook, today_date)
      [] command = cSearchNote -> note_handlers_search_note(args, notebook, today_date)
      [] command = cAddNoteTag -> note_handlers_add_note_tag(args, notebook, today_date)
      [] command = cDeleteNoteTag -> note_handlers_delete_note_tag(args, notebook, today_date)
      [] OTHER -> Returned("Invalid command.", notebook, today_date)

lnBlank == <<" ", " ", " ">>

lnHello == <<"H", "e", "l", "l", "o">>

lnBogus == <<"b", "o", "g", "u", "s">>

lnClose == <<"c", "l", "o", "s", "e">>

lnExit == <<" ", "E", "X", "I", "T", " ">>

lnBirthdays == <<"b", "i", "r", "t", "h", "d", "a", "y", "s">>

lnBirthdaysBad == <<"b", "i", "r", "t", "h", "d", "a", "y", "s", " ", "x">>

lnBirthdaysTwo == <<"b", "i", "r", "t", "h", "d", "a", "y", "s", " ", "7", " ", "7">>

lnBirthdaysFar == <<"b", "i", "r", "t", "h", "d", "a", "y", "s", " ", "3", "0", "0", "0", "0", "0", "0">>

lnAddNote == <<"a", "d", "d", "-", "n", "o", "t", "e", " ", "t", "o", " ", "b", "u", "y">>

lnAddNoteNone == <<"a", "d", "d", "-", "n", "o", "t", "e">>

lnDeleteNote == <<"d", "e", "l", "e", "t", "e", "-", "n", "o", "t", "e", " ", "n", "1">>

lnDeleteNoteAbsent == <<"d", "e", "l", "e", "t", "e", "-", "n", "o", "t", "e", " ", "n", "9">>

lnChangeNote == <<"c", "h", "a", "n", "g", "e", "-", "n", "o", "t", "e", " ", "n", "1", " ", "b", "u", "y">>

lnAllNotes == <<"a", "l", "l", "-", "n", "o", "t", "e", "s">>

lnSearchNote == <<"s", "e", "a", "r", "c", "h", "-", "n", "o", "t", "e", " ", "#", "w", "o", "r", "k">>

lnAddNoteTag == <<"a", "d", "d", "-", "n", "o", "t", "e", "-", "t", "a", "g", " ", "n", "1", " ", "w", "o", "r", "k">>

lnDeleteNoteTag == <<"d", "e", "l", "e", "t", "e", "-", "n", "o", "t", "e", "-", "t", "a", "g", " ", "n", "1", " ", "h", "o", "m", "e">>

lnHelp == <<"h", "e", "l", "p">>

InputLines ==
    {None, lnBlank, lnHello, lnBogus, lnClose, lnExit,
     lnBirthdays, lnBirthdaysBad, lnBirthdaysTwo, lnBirthdaysFar, lnAddNote,
     lnAddNoteNone, lnDeleteNote, lnDeleteNoteAbsent, lnChangeNote, lnAllNotes,
     lnSearchNote, lnAddNoteTag, lnDeleteNoteTag, lnHelp}

LoadOutcomes == {"ok", "FileNotFoundError", "OSError", "PickleError", "EOFError"}

SaveOutcomes == {"ok", "OSError", "PickleError"}

\* what the two blobs hold when the program starts
StoredBooks == {<< >>, <<Contact(sAnn, None, None, None, sBday1)>>}

StoredNotes == {<< >>, <<[NewNote(1, sText1, Today0) EXCEPT !.tags = <<sHashWork>>]>>}

InitMain ==
    /\ heap \in StoredBooks
    /\ book = BookOf(heap)
    /\ last = NoCall
    /\ clock = Today0
    /\ notes \in StoredNotes
    /\ proc = Process("load_data", "", "", {}, "", "")
    /\ disk = None

\* main() ends with exc leaving it
Ended(exc) == [proc EXCEPT !.pc = "ended", !.exit = exc]

\* address_book = load_data()
LoadData(outcome) ==
    /\ proc.pc = "load_data"
    /\ LET out == load_data(outcome)
       IN /\ proc' = IF out.exc # ""
                     THEN [proc EXCEPT !.pc = "aborted", !.exit = out.exc]
                     ELSE [proc EXCEPT !.pc = "note_load_data",
                                       !.address_book =
                                           IF out.value = "None" THEN "None"
                                           ELSE "AddressBook"]
          /\ heap' = IF out.value = "loaded" THEN heap ELSE << >>
          /\ book' = IF out.value = "loaded" THEN book ELSE << >>
          /\ last' = Last("load_data", 0, None, "", None, None, FALSE,
                          out.exc # "", outcome, None, None)
    /\ UNCHANGED <<clock, notes, disk>>

\* note_list = note_load_data()
NoteLoadData(outcome) ==
    /\ proc.pc = "note_load_data"
    /\ LET out == note_load_data(outcome)
       IN /\ proc' = IF out.exc # ""
                     THEN [proc EXCEPT !.pc = "aborted", !.exit = out.exc]
                     ELSE [proc EXCEPT !.pc = "logo", !.note_list = "NoteBook"]
          /\ notes' = IF out.value = "loaded" THEN notes ELSE << >>
          /\ last' = Last("note_load_data", 0, None, "", None, None, FALSE,
                          out.exc # "", outcome, None, None)
    /\ UNCHANGED <<heap, book, clock, disk>>

\* with open("logo.txt", "r") as file, and the three greeting lines
PrintLogo(outcome) ==
    /\ proc.pc = "logo"
    /\ proc' = IF outcome = "ok"
               THEN [proc EXCEPT !.pc = "prompt", !.out = "Welcome"]
               ELSE [proc EXCEPT !.pc = "aborted", !.exit = outcome]
    /\ last' = Last("logo", 0, None, "", None, None, FALSE, outcome # "ok",
                    outcome, None, None)
    /\ UNCHANGED <<heap, book, clock, notes, disk>>

\* one turn of the while loop on the line user_input: key is the command,
\* field the branch taken, old and new what the two saves met, raised
\* whether an exception left the handler, msg that exception or ""
Command(user_input, reads, book_save, note_save) ==
    /\ proc.pc = "prompt"
    /\ LET parsed == parse_input(user_input)
           turn(field, command, exc) ==
               Last("command", 0, command, field,
                    IF field = "close" THEN book_save ELSE "",
                    IF field = "close" THEN note_save ELSE "", FALSE,
                    exc # "", exc, None, None)
       IN IF ~Truthy(user_input)
          THEN /\ last' = turn("continue", << >>, "")
               /\ UNCHANGED <<heap, book, clock, notes, proc, disk>>
          ELSE IF parsed.exc # ""
          THEN /\ last' = turn("parse_input", << >>, parsed.exc)
               /\ proc' = Ended(parsed.exc)
               /\ UNCHANGED <<heap, book, clock, notes, disk>>
          ELSE IF parsed.cmd \in {cClose, cExit}
          THEN /\ last' = turn("close", parsed.cmd, "")
               /\ proc' =
                     IF save_data(book_save) # ""
                     THEN [Ended(save_data(book_save)) EXCEPT !.saved = {"book"}]
                     ELSE IF note_save_data(note_save) # ""
                     THEN [Ended(note_save_data(note_save)) EXCEPT
                              !.saved = {"book", "notes"}]
                     ELSE [Ended("") EXCEPT !.saved = {"book", "notes"},
                                            !.out = "Good bye!"]
               /\ UNCHANGED <<heap, book, clock, notes, disk>>
          ELSE /\ parsed.cmd \in PlainCommands \/ parsed.cmd \notin Commands
               /\ LET out == dispatch(parsed.cmd, parsed.args, proc.address_book,
                                      book, heap, clock, reads, notes)
                  IN /\ Len(out.data) <= MaxNotes /\ TagsBounded(out.data)
                     /\ last' = turn(IF parsed.cmd \in Commands THEN "handler"
                                     ELSE "else", parsed.cmd, out.exc)
                     /\ notes' = out.data
                     /\ clock' = out.now
                     /\ proc' = IF out.exc # "" THEN Ended(out.exc)
                                ELSE [proc EXCEPT !.out = out.msg]
                     /\ UNCHANGED <<heap, book, disk>>

\* Ctrl-C or Ctrl-D while prompt() waits or a command runs
Interrupt(exc) ==
    /\ proc.pc = "prompt"
    /\ proc' = Ended(exc)
    /\ last' = Last("interrupt", 0, None, "", None, None, FALSE, TRUE, exc, None, None)
    /\ UNCHANGED <<heap, book, clock, notes, disk>>

NextMain ==
    \/ \E outcome \in LoadOutcomes : LoadData(outcome)
    \/ \E outcome \in LoadOutcomes : NoteLoadData(outcome)
    \/ \E outcome \in {"ok", "FileNotFoundError"} : PrintLogo(outcome)
    \/ \E user_input \in InputLines \ {lnClose, lnExit} :
          \E reads \in ClockReads(clock, book, heap) :
             Command(user_input, reads, "ok", "ok")
    \/ \E user_input \in {lnClose, lnExit} :
          \E book_save \in SaveOutcomes : \E note_save \in SaveOutcomes :
             Command(user_input, << >>, book_save, note_save)
    \/ \E exc \in {"KeyboardInterrupt", "EOFError"} : Interrupt(exc)

SpecMain == InitMain /\ [][NextMain]_vars

(***************************************************************************)
(* Claims about the command handlers and main()                            *)
(***************************************************************************)
\* C16: for every command, argument list and state of the two containers the
\* handler returns a message: no exception leaves it for the command loop.
C16_Claim ==
    (last.op = "command" /\ last.field = "handler"
        /\ proc.address_book = "AddressBook" /\ proc.note_list = "NoteBook") =>
        ~last.raised

\* C17: for every line the user enters, empty and blank ones included, the
\* loop ignores the line, runs the command it names or prints 'Invalid
\* command.', and then asks for the next command; the process ends only on
\* close or exit.
C17_Claim ==
    (last.op = "command") =>
        /\ (proc.pc = "ended") <=> (last.key \in {cClose, cExit})
        /\ last.field = "else" => proc.out = "Invalid command."

\* C18: on every path by which the command loop ends, close or exit as well
\* as an interrupt or abort at the prompt or in a command, a save of the
\* AddressBook and a save of the NoteBook were both attempted.
C18_Claim == (proc.pc = "ended") => (proc.saved = {"book", "notes"})

\* C19: loading either container from a missing or unreadable blob gives a
\* fresh empty container of the right kind, never an exception and never
\* another value.
C19_Claim ==
    /\ (last.op = "load_data" /\ last.msg # "ok") =>
          ~last.raised /\ proc.address_book = "AddressBook" /\ book = << >>
    /\ (last.op = "note_load_data" /\ last.msg # "ok") =>
          ~last.raised /\ proc.note_list = "NoteBook" /\ notes = << >>

\* C20: a failing save at shutdown is reported and does not abort: after a
\* failed AddressBook save the NoteBook save is still attempted, a failed
\* NoteBook save lets no exception out, and the program prints 'Good bye!'.
C20_Claim ==
    (last.op = "command" /\ last.field = "close") =>
        /\ last.old # "ok" => "notes" \in proc.saved
        /\ proc.exit = ""
        /\ proc.out = "Good bye!"

(***************************************************************************)
(* SpecFields: the Phone and Birthday fields constructed from input text   *)
(***************************************************************************)
\* Phone.__init__(value): Field.__init__ stores the text as given
Phone(value) ==
    IF PhoneOk(value) THEN [raised |-> FALSE, value |-> Some(value)]
    ELSE [raised |-> TRUE, value |-> None]

sDigitRun == <<"1", "2", "3", "4", "5", "6", "7", "8", "9", "0", "1">>

PhoneSpoilers == {"x", " ", "-", "+", "."}

\* runs of 0 to PhoneLen + 1 digits, whole or with one character replaced
PhoneTexts ==
    LET Run(n) == SubSeq(sDigitRun, 1, n)
    IN {Run(n) : n \in 0..(PhoneLen + 1)} \cup
       {[Run(np[1]) EXCEPT ![np[2]] = c] :
           np \in {x \in (1..(PhoneLen + 1)) \X (1..(PhoneLen + 1)) : x[2] <= x[1]},
           c \in PhoneSpoilers}

sBdayShort == <<"1", ".", "6", ".", "1", "9", "9", "0">>

sBdaySpace == <<" ", "5", ".", "0", "6", ".", "1", "9", "9", "0">>

sBdayOld == <<"0", "1", ".", "0", "6", ".", "0", "9", "9", "0">>

sBdayToday == <<"1", "0", ".", "0", "6", ".", "2", "0", "2", "4">>

sBdayNoDay == <<"2", "9", ".", "0", "2", ".", "2", "0", "2", "3">>

DateTexts ==
    {None, sBday1, sBdayLeap, sBdayToday, sBdayFuture, sBdayShort, sBdaySpace,
     sBdayOld, sBdayNoDay, sBdayBad}

InitFields ==
    /\ heap = << >>
    /\ book = << >>
    /\ last = NoCall
    /\ clock \in {Today0, NextDay(Today0)}
    /\ notes = << >>
    /\ proc = NoProcess
    /\ disk = None

\* Phone(value)
NewPhone(value) ==
    /\ LET out == Phone(value)
       IN last' = Last("Phone", 0, None, "phones", None, value, FALSE,
                       out.raised, IF out.raised THEN "ValueError" ELSE "",
                       out.value, None)
    /\ UNCHANGED <<heap, book, clock, notes, proc, disk>>

\* Birthday(value), and the text Record.show_birthday renders from it
NewBirthday(value) ==
    /\ LET out == Birthday(value, clock)
       IN last' = Last("Birthday", 0, None, "birthday", None, value, FALSE,
                       out.raised,
                       IF out.raised THEN "ValueError" ELSE Strftime(out.value[1]),
                       out.value, None)
    /\ UNCHANGED <<heap, book, clock, notes, proc, disk>>

NextFields ==
    \/ \E value \in PhoneTexts : NewPhone(value)
    \/ \E value \in DateTexts : NewBirthday(value)

SpecFields == InitFields /\ [][NextFields]_vars

TenDigits(s) ==
    /\ Len(s) = 10
    /\ \A i \in 1..Len(s) : s[i] \in {"0", "1", "2", "3", "4", "5", "6", "7", "8", "9"}

C23_Claim ==
    (last.op = "Birthday" /\ ~last.raised) =>
        /\ Ord(last.found[1]) <= Ord(clock)
        /\ last.msg = last.new

\* C24: search_in_fields called with no search term raises a validation error
\* whatever the book holds, and hands back no table, no 'no matches' signal
\* and no other normal value.
C24_Claim ==
    (last.op = "search_in_fields" /\ last.new = << >>) => last.raised

\* C25: one get_upcoming_birthdays call judges every record against a single
\* date captured at its start: while midnight passes during the call, its
\* outcome is the outcome that the date read at the start alone gives.
C25_Claim ==
    (last.op = "get_upcoming_birthdays") =>
        LET once == [i \in 1..Len(last.pre) |-> last.old]
            out == get_upcoming_birthdays(book, heap, last.new, last.old, once)
        IN last.raised = out.raised /\ last.found = out.rows

\* C30: add_tag and delete_tag with a list of tags are all-or-nothing: when
\* the call raises, for an unknown note id or for some tag of the list, the
\* note's tags and the rest of the notebook are as they were before the call.
C30_Claim ==
    [][(last'.op \in {"add_tag", "delete_tag"} /\ last'.raised) => notes' = notes]_vars

(***************************************************************************)
(* SpecMutators: the Record mutators of SpecRecord and edit_field('name')  *)
(* on the one contact, with and without its AddressBook                    *)
(***************************************************************************)
NextMutators ==
    \/ NextRecord
    \/ \E new_value \in {None, sAnna} : \E address_book \in BOOLEAN :
          EditField(1, "name", None, new_value, address_book)

SpecMutators == InitRecord /\ [][NextMutators]_vars

\* C28: a Record mutator that fails with a validation or state error leaves
\* the record's name, phones, emails, address and birthday and the owning
\* address book as they were; a failed edit_phone or edit_email has neither
\* added the new value nor removed the old one.
C28_FailedMutator ==
    [][(last'.op \in {"edit_field", "add_birthday"} /\ last'.raised) =>
          heap' = heap /\ book' = book]_vars

\* edit_phone of a phone the record holds to a text Phone rejects has raised
C28_Witness ==
    /\ last.op = "edit_field"
    /\ last.field = "phones"
    /\ last.raised
    /\ last.old = sPhone1
    /\ last.new = sPhoneBad
    /\ InList(last.pre[1].phones, sPhone1)
    /\ heap[1] = last.pre[1]

(***************************************************************************)
(* The contact handlers add_contact, change_contact and delete_contact.    *)
(* The answers typed at the prompts of one loop are a list; when the list  *)
(* is used up the user types the word that leaves the loop ('n', 'back').  *)
(* printed is the set of notices the handler wrote to the console.  When   *)
(* a handler has returned, the Records that no key refers to any more are  *)
(* freed (Collect).                                                        *)
(***************************************************************************)
sN == <<"n">>

sBack == <<"b", "a", "c", "k">>

sEmail2 == <<"d", "@", "b", ".", "c">>

\* value.strip() == ""
Blank(value) == \A i \in 1..Len(value) : value[i] = " "

\* the records the book still refers to; a Record no key refers to is freed
Collect(h, data) ==
    LET live == {data[i].id : i \in 1..Len(data)}
        rank(id) == Cardinality({j \in live : j <= id})
        nth(k) == CHOOSE id \in live : rank(id) = k
    IN [heap |-> [k \in 1..Cardinality(live) |-> h[nth(k)]],
        data |-> [i \in 1..Len(data) |-> [key |-> data[i].key, id |-> rank(data[i].id)]]]

Handled(h, data, msg, printed) ==
    [heap |-> h, data |-> data, msg |-> msg, printed |-> printed]

Asked(rec, printed) == [rec |-> rec, printed |-> printed]

\* a mutant of ask_phones: a number the record already holds is not refused
RECURSIVE ask_phones_no_check(_, _)
ask_phones_no_check(asked, answers) ==
    IF answers = << >> \/ Lower(Head(answers)) = sN THEN asked
    ELSE LET phone_str == Head(answers)
             rest == Tail(answers)
         IN IF Blank(phone_str)
            THEN ask_phones_no_check(Asked(asked.rec, asked.printed \cup {"empty"}), rest)
            ELSE LET added == add_phone(asked.rec, phone_str)
                 IN ask_phones_no_check(
                        Asked(added.rec,
                              asked.printed \cup (IF added.raised THEN {"error"} ELSE {})),
                        rest)

\* add_contact: the loop that asks for phone numbers
RECURSIVE ask_phones(_, _)
ask_phones(asked, answers) ==
    IF answers = << >> \/ Lower(Head(answers)) = sN THEN asked
    ELSE LET phone_str == Head(answers)
             rest == Tail(answers)
         IN IF Blank(phone_str)
            THEN ask_phones(Asked(asked.rec, asked.printed \cup {"empty"}), rest)
            ELSE IF InList(asked.rec.phones, phone_str)
            THEN ask_phones(Asked(asked.rec, asked.printed \cup {"duplicate"}), rest)
            ELSE LET added == add_phone(asked.rec, phone_str)
                 IN ask_phones(
                        Asked(added.rec,
                              asked.printed \cup (IF added.raised THEN {"error"} ELSE {})),
                        rest)

\* add_contact: the loop that asks for emails
RECURSIVE ask_emails(_, _)
ask_emails(asked, answers) ==
    IF answers = << >> \/ Lower(Head(answers)) = sN THEN asked
    ELSE LET email == Head(answers)
             rest == Tail(answers)
         IN IF Blank(email)
            THEN ask_emails(Asked(asked.rec, asked.printed \cup {"empty"}), rest)
            ELSE IF InList(asked.rec.emails, email)
            THEN ask_emails(Asked(asked.rec, asked.printed \cup {"duplicate"}), rest)
            ELSE LET added == add_email(asked.rec, email)
                 IN ask_emails(
                        Asked(added.rec,
                              asked.printed \cup (IF added.raised THEN {"error"} ELSE {})),
                        rest)

\* add_contact: the loop that asks for the address, left at the first one taken
RECURSIVE ask_address(_, _)
ask_address(asked, answers) ==
    IF answers = << >> \/ Lower(Head(answers)) = sN THEN asked
    ELSE LET address == Head(answers)
             rest == Tail(answers)
         IN IF Blank(address)
            THEN ask_address(Asked(asked.rec, asked.printed \cup {"empty"}), rest)
            ELSE LET added == add_address(asked.rec, address)
                 IN IF added.raised
                    THEN ask_address(Asked(added.rec, asked.printed \cup {"error"}), rest)
                    ELSE Asked(added.rec, asked.printed)

\* add_contact: the loop that asks for the birthday, left at the first one taken
RECURSIVE ask_birthday(_, _, _)
ask_birthday(asked, answers, today) ==
    IF answers = << >> \/ Lower(Head(answers)) = sN THEN asked
    ELSE LET birthday == Head(answers)
             rest == Tail(answers)
         IN IF Blank(birthday)
            THEN ask_birthday(Asked(asked.rec, asked.printed \cup {"empty"}), rest, today)
            ELSE LET added == add_birthday(asked.rec, birthday, today)
                 IN IF added.raised
                    THEN ask_birthday(Asked(added.rec, asked.printed \cup {"error"}),
                                      rest, today)
                    ELSE Asked(added.rec, asked.printed)

\* add_contact(args, address_book) under @input_error, with the answers typed
\* at its four prompts
add_contact(args, data, h, phones, emails, address, birthday, today) ==
    LET name_str == Join(args)
    IN IF find(data, name_str) # None
       THEN Handled(h, data, "already exists", {})
       ELSE IF ~NameOk(name_str)
       THEN Handled(h, data, "ValueError", {})
       ELSE LET a1 == ask_phones(Asked(NewRec(name_str), {}), phones)
                a2 == ask_emails(a1, emails)
                a3 == ask_address(a2, address)
                a4 == ask_birthday(a3, birthday, today)
                h1 == Append(h, a4.rec)
            IN Handled(h1, add_record(data, h1, Len(h1)),
                       "Contact added successfully.", a4.printed)

\* delete_contact(args, address_book)
delete_contact(args, data, h) ==
    IF Len(args) < 1 THEN Handled(h, data, "Please provide the name", {})
    ELSE LET contact_name == Join(args)
         IN IF HasKey(data, contact_name)
            THEN Handled(h, delete(data, contact_name), "has been deleted.", {})
            ELSE Handled(h, data, "not found.", {})

Edited(h, data, printed) == [heap |-> h, data |-> data, printed |-> printed]

\* change_contact: the loop that asks for the new name
RECURSIVE change_name(_, _, _, _, _, _)
change_name(h, data, id, answers, printed, today) ==
    IF answers = << >> \/ Lower(Head(answers)) = sBack THEN Edited(h, data, printed)
    ELSE LET out == edit_field(h, data, id, "name", None, Head(answers), TRUE, today)
         IN IF out.raised
            THEN change_name(out.heap, out.data, id, Tail(answers),
                             printed \cup {"error"}, today)
            ELSE Edited(out.heap, out.data, printed)

\* change_contact: the loop that asks for the new phone or email, in add mode
\* (old_value is None) or in edit mode
RECURSIVE change_list(_, _, _, _, _, _, _, _, _)
change_list(h, data, id, selected_field, old_value, extracted_values, answers, printed, today) ==
    IF answers = << >> \/ Lower(Head(answers)) = sBack THEN Edited(h, data, printed)
    ELSE LET new_value == Head(answers)
             rest == Tail(answers)
         IN IF Blank(new_value) /\ Truthy(old_value)
            THEN LET out == edit_field(h, data, id, selected_field, old_value, None,
                                       FALSE, today)
                 IN Edited(out.heap, out.data, printed \cup {"removed"})
            ELSE IF ~Blank(new_value)
            THEN IF InList(extracted_values, new_value)
                 THEN change_list(h, data, id, selected_field, old_value,
                                  extracted_values, rest, printed \cup {"duplicate"},
                                  today)
                 ELSE LET out == edit_field(h, data, id, selected_field, old_value,
                                            new_value, FALSE, today)
                      IN IF out.raised
                         THEN change_list(out.heap, out.data, id, selected_field,
                                          old_value, extracted_values, rest,
                                          printed \cup {"error"}, today)
                         ELSE Edited(out.heap, out.data, printed)
            ELSE change_list(h, data, id, selected_field, old_value, extracted_values,
                             rest, printed, today)

\* change_contact: the loop that asks for the new address or birthday
RECURSIVE change_value(_, _, _, _, _, _, _)
change_value(h, data, id, selected_field, answers, printed, today) ==
    IF answers = << >> \/ Lower(Head(answers)) = sBack THEN Edited(h, data, printed)
    ELSE LET out == edit_field(h, data, id, selected_field, None, Head(answers),
                               FALSE, today)
         IN IF out.raised
            THEN change_value(out.heap, out.data, id, selected_field, Tail(answers),
                              printed \cup {"error"}, today)
            ELSE Edited(out.heap, out.data, printed)

field_map ==
    [x \in {"1", "2", "3", "4", "5"} |->
        CASE x = "1" -> "name" [] x = "2" -> "phones" [] x = "3" -> "emails"
          [] x = "4" -> "address" [] OTHER -> "birthday"]

\* change_contact(args, address_book) for a session of one menu choice
\* field_to_edit followed by 'exit'; action and old_value are the answers
\* to the edit/add question and to the question for the value to replace
change_contact(args, data, h, field_to_edit, action, old_value, answers, today) ==
    LET name_str == Join(args)
        record == find(data, name_str)
    IN IF record = None THEN Handled(h, data, "not found", {})
       ELSE IF field_to_edit \notin DOMAIN field_map
       THEN Handled(h, data, "Contact updated successfully.",
                    IF field_to_edit = "exit" THEN {} ELSE {"invalid"})
       ELSE LET id == record[1]
                selected_field == field_map[field_to_edit]
                extracted_values == IF selected_field = "phones" THEN h[id].phones
                                    ELSE h[id].emails
                mode == IF extracted_values = << >> THEN "add" ELSE action
                out ==
                    IF selected_field = "name"
                    THEN change_name(h, data, id, answers, {}, today)
                    ELSE IF selected_field \in {"address", "birthday"}
                    THEN change_value(h, data, id, selected_field, answers, {}, today)
                    ELSE IF mode = "back" THEN Edited(h, data, {})
                    ELSE IF mode = "edit" /\ Lower(old_value) = sBack
                    THEN Edited(h, data, {})
                    ELSE IF mode = "edit" /\ ~InList(extracted_values, old_value)
                    THEN Edited(h, data, {"absent"})
                    ELSE change_list(h, data, id, selected_field,
                                     IF mode = "edit" THEN old_value ELSE None,
                                     extracted_values, answers, {}, today)
            IN Handled(out.heap, out.data, "Contact updated successfully.", out.printed)

(***************************************************************************)
(* SpecContacts: add-contact, change-contact and delete-contact commands   *)
(* on an AddressBook that starts empty.  SpecContactLists: the same        *)
(* commands for one contact, with more answers at the phone and email      *)
(* prompts.                                                                *)
(***************************************************************************)
MaxAnswers == 2

Answers(values, n) == UNION {[1..k -> values] : k \in 0..n}

\* the add-contact command
AddContact(args, phones, emails, address, birthday) ==
    /\ \E out \in {add_contact(args, book, heap, phones, emails, address, birthday, clock)} :
       \E kept \in {Collect(out.heap, out.data)} :
          /\ ListsBounded(kept.heap)
          /\ heap' = kept.heap
          /\ book' = kept.data
          /\ last' = Last("add_contact", 0, Join(args), "", None, None, FALSE,
                          FALSE, out.msg, out.printed, None)
    /\ UNCHANGED <<clock, notes, proc, disk>>

\* the change-contact command
ChangeContact(args, field_to_edit, action, old_value, answers) ==
    /\ \E out \in {change_contact(args, book, heap, field_to_edit, action, old_value,
                                 answers, clock)} :
       \E kept \in {Collect(out.heap, out.data)} :
          /\ ListsBounded(kept.heap)
          /\ heap' = kept.heap
          /\ book' = kept.data
          /\ last' = Last("change_contact", 0, Join(args), field_to_edit, None, None,
                          FALSE, FALSE, out.msg, out.printed, None)
    /\ UNCHANGED <<clock, notes, proc, disk>>

\* the delete-contact command
DeleteContact(args) ==
    /\ \E out \in {delete_contact(args, book, heap)} :
       \E kept \in {Collect(out.heap, out.data)} :
          /\ heap' = kept.heap
          /\ book' = kept.data
          /\ last' = Last("delete_contact", 0, Join(args), "", None, None, FALSE,
                          FALSE, out.msg, out.printed, None)
    /\ UNCHANGED <<clock, notes, proc, disk>>

ContactArgs == {<< >>, <<sAnn>>, <<sAnna>>}

NextContacts ==
    \/ \E args \in ContactArgs :
       \E phones \in Answers({sPhone1}, 1) : \E address \in Answers({sAddr1, sAddrBad}, 1) :
          AddContact(args, phones, << >>, address, << >>)
    \/ \E args \in ContactArgs : \E answers \in Answers({None, sAnn, sAnna, sBack}, 1) :
          ChangeContact(args, "1", "add", None, answers)
    \/ \E args \in ContactArgs : \E answers \in Answers({None, sAddr1, sAddrBad}, MaxAnswers) :
          ChangeContact(args, "4", "add", None, answers)
    \/ \E args \in ContactArgs : \E field_to_edit \in {"exit", "6"} :
          ChangeContact(args, field_to_edit, "add", None, << >>)
    \/ \E args \in ContactArgs : DeleteContact(args)

SpecContacts == Init /\ [][NextContacts]_vars

PhoneAnswers == {sPhone1, sPhone2, sPhoneBad}

EmailAnswers == {sEmail1, sEmail2}

NextContactLists ==
    \/ \E phones \in Answers({sPhone1, sPhone2}, MaxAnswers) :
       \E emails \in Answers({sEmail1, sEmailBad}, MaxAnswers) :
          AddContact(<<sAnn>>, phones, emails, << >>, << >>)
    \/ \E action \in {"add", "edit"} : \E old_value \in {sPhone1, sPhone2} :
       \E answers \in Answers(PhoneAnswers \cup {None}, MaxAnswers) :
          ChangeContact(<<sAnn>>, "2", action, old_value, answers)
    \/ \E action \in {"add", "edit"} : \E old_value \in EmailAnswers :
       \E answers \in Answers(EmailAnswers \cup {None}, MaxAnswers) :
          ChangeContact(<<sAnn>>, "3", action, old_value, answers)
    \/ \E field_to_edit \in {"2", "3"} : \E old_value \in {sBack, sPhone1} :
          ChangeContact(<<sAnn>>, field_to_edit, "back", old_value, <<sPhone2>>)
    \/ \E answers \in Answers({None, sBday1, sBdayBad}, 1) :
          ChangeContact(<<sAnn>>, "5", "add", None, answers)
    \/ DeleteContact(<<sAnn>>)

SpecContactLists == Init /\ [][NextContactLists]_vars

\* C26: after any sequence of add-contact, change-contact and delete-contact
\* commands from an empty book, every key of the book maps to a record whose
\* name is that key, the name is not empty, and no record object is stored
\* under two keys.
C26_Keys ==
    /\ \A i \in 1..Len(book) :
          /\ book[i].id \in 1..Len(heap)
          /\ heap[book[i].id].name = book[i].key
          /\ Truthy(book[i].key)
    /\ \A i \in 1..Len(book) : \A j \in 1..Len(book) :
          i # j => book[i].id # book[j].id /\ book[i].key # book[j].key

\* Ann has been renamed to Anna next to no other contact: the record is found
\* under the new key alone
C26_Witness ==
    /\ last.op = "change_contact"
    /\ last.field = "1"
    /\ last.key = sAnn
    /\ Len(book) = 1
    /\ book[1].key = sAnna
    /\ heap[book[1].id].name = sAnna

\* C27: a rename through change-contact removes and replaces no other
\* contact: the book holds as many contacts after it as before, and every
\* contact but the renamed one is still found under its name with the same
\* fields.
C27_Claim ==
    [][(last'.op = "change_contact" /\ last'.field = "1") =>
          /\ Len(book') = Len(book)
          /\ \A i \in 1..Len(book) :
                book[i].key # last'.key =>
                    /\ HasKey(book', book[i].key)
                    /\ heap'[find(book', book[i].key)[1]] = heap[book[i].id]]_vars

\* C29: after any sequence of add-contact and change-contact commands from an
\* empty book, with any answers at the prompts, no contact holds two phones
\* of the same text or two emails of the same address.
C29_NoDuplicates ==
    \A id \in 1..Len(heap) :
        /\ \A i \in 1..Len(heap[id].phones) : \A j \in 1..Len(heap[id].phones) :
              i # j => heap[id].phones[i] # heap[id].phones[j]
        /\ \A i \in 1..Len(heap[id].emails) : \A j \in 1..Len(heap[id].emails) :
              i # j => heap[id].emails[i] # heap[id].emails[j]

\* a handler has refused a value the contact already holds, and the contact
\* holds two different phones
C29_Witness ==
    /\ last.op \in {"add_contact", "change_contact"}
    /\ "duplicate" \in last.found
    /\ Len(heap) = 1
    /\ Len(heap[1].phones) = 2

(***************************************************************************)
(* SpecPersist: data_manager.save_data and load_data on the file           *)
(* tmp/addressbook.pkl.  A pickle of the AddressBook is the list of its    *)
(* items: the key and either the state of the Record object or, for an     *)
(* object pickled before, the memo reference to the item that holds it.    *)
(***************************************************************************)
\* pickle.dump(book, f)
pickle_dump(data, h) ==
    [i \in 1..Len(data) |->
        LET before == {j \in 1..(i - 1) : data[j].id = data[i].id}
            record == h[data[i].id]
        IN IF before = {}
           THEN [key |-> data[i].key, memo |-> 0,
                 state |-> <<record.name, record.phones, record.emails,
                             record.address, record.birthday>>]
           ELSE [key |-> data[i].key,
                 memo |-> CHOOSE j \in before : \A k \in before : j <= k,
                 state |-> << >>]]

\* a mutant of pickle_load: the phones of a record come back in reverse order
pickle_load_reversed(blob) ==
    LET objects == {i \in 1..Len(blob) : blob[i].memo = 0}
        new_id(i) == Cardinality({j \in objects : j <= i})
        item_of(k) == CHOOSE i \in objects : new_id(i) = k
        rebuilt(state) ==
            [name |-> state[1],
             phones |-> [k \in 1..Len(state[2]) |-> state[2][Len(state[2]) + 1 - k]],
             emails |-> state[3], address |-> state[4], birthday |-> state[5]]
    IN [heap |-> [k \in 1..Cardinality(objects) |-> rebuilt(blob[item_of(k)].state)],
        data |-> [i \in 1..Len(blob) |->
                     [key |-> blob[i].key,
                      id |-> IF blob[i].memo = 0 THEN new_id(i)
                             ELSE new_id(blob[i].memo)]]]

\* pickle.load(f): every pickled object is built anew, in the order of the
\* pickle, and a memo reference gives the object built for the item it names
pickle_load(blob) ==
    LET objects == {i \in 1..Len(blob) : blob[i].memo = 0}
        new_id(i) == Cardinality({j \in objects : j <= i})
        item_of(k) == CHOOSE i \in objects : new_id(i) = k
        rebuilt(state) ==
            [name |-> state[1], phones |-> state[2], emails |-> state[3],
             address |-> state[4], birthday |-> state[5]]
    IN [heap |-> [k \in 1..Cardinality(objects) |-> rebuilt(blob[item_of(k)].state)],
        data |-> [i \in 1..Len(blob) |->
                     [key |-> blob[i].key,
                      id |-> IF blob[i].memo = 0 THEN new_id(i)
                             ELSE new_id(blob[i].memo)]]]

\* save_data(book): outcome is what makedirs, open and pickle.dump did
SaveBook(outcome) ==
    /\ disk' = IF outcome = "ok" THEN Some(pickle_dump(book, heap)) ELSE disk
    /\ last' = Last("save_data", 0, None, "", None, None, FALSE,
                    save_data(outcome) # "", outcome, None, None)
    /\ UNCHANGED <<heap, book, clock, notes, proc>>

\* address_book = load_data()
LoadBook ==
    /\ LET outcome == IF disk = None THEN "FileNotFoundError" ELSE "ok"
           out == load_data(outcome)
           loaded == pickle_load(disk[1])
       IN /\ heap' = IF out.value = "loaded" THEN loaded.heap ELSE << >>
          /\ book' = IF out.value = "loaded" THEN loaded.data ELSE << >>
          /\ last' = Last("load_data", 0, None, "", None, None, FALSE,
                          out.exc # "", outcome, None, None)
    /\ UNCHANGED <<clock, notes, proc, disk>>

\* the contacts of the books that are saved
PersistContacts ==
    {Contact(sAnn, None, None, None, None),
     add_phone(Contact(sAnn, sPhone1, sEmail1, sAddr1, sBday1), sPhone2).rec,
     add_phone(Contact(sAnn, sPhone2, None, None, None), sPhone1).rec,
     Contact(sAnna, sPhone1, None, sAddr2, sBdayLeap)}

\* books of zero to MaxContacts contacts; the dict holds them in the order in
\* which the Record objects were made, or in the opposite order
PersistBooks ==
    LET recs == {r \in UNION {[1..n -> PersistContacts] : n \in 0..MaxContacts} :
                    \A a \in 1..Len(r) : \A b \in 1..Len(r) :
                        a # b => r[a].name # r[b].name}
    IN {[heap |-> r, data |-> BookOf(r)] : r \in recs} \cup
       {[heap |-> r,
         data |-> [i \in 1..Len(r) |-> BookOf(r)[Len(r) + 1 - i]]] : r \in recs}

InitPersist ==
    /\ \E b \in PersistBooks : heap = b.heap /\ book = b.data
    /\ last = NoCall
    /\ clock = Today0
    /\ notes = << >>
    /\ proc = NoProcess
    /\ disk = None

NextPersist ==
    \/ \E outcome \in {"ok", "OSError"} : SaveBook(outcome)
    \/ LoadBook
    \/ \E args \in ContactArgs : DeleteContact(args)

SpecPersist == InitPersist /\ [][NextPersist]_vars

====
